---- MODULE Spec2Model ----
(***************************************************************************)
(* Post-processing of LoRa mesh simulation logs: packet-journey            *)
(* reconstruction (paths_report.py, endnode_distance_tracker.py,           *)
(* dsdv_rescue_analysis.py) and failure-record deduplication               *)
(* (failure_analysis.py, random_failure_analysis.py).                      *)
(*                                                                         *)
(* Units.  simTime values of the event log are integers counting 1e-7 s,   *)
(* so that round(x, 6) is a real rounding (to a multiple of 10).  Failure  *)
(* times are integers counting 1e-10 s, so that round(t, 9) is a real      *)
(* rounding too.  No value of the input sets lies exactly half-way between *)
(* two multiples of 10, where Python's float rounding depends on the       *)
(* binary representation.                                                  *)
(*                                                                         *)
(* Python's None is the empty sequence, a present value v is <<v>>.        *)
(***************************************************************************)
EXTENDS Integers, Sequences, FiniteSets, TLC

\* ------------------------------------------------------------------ bounds
\* Longest event log (rows of paths.csv) explored.
MaxRows == 3
\* Longest list of scalar records (lines of the .sca files) explored.
MaxScalars == 3
\* expected_packets of the analysed scenario: the packets 0..ExpectedPackets-1.
ExpectedPackets == 3
\* Most pair reports aggregated.
MaxFiles == 3
\* --runs of a batch: the run indexes 1..MaxRuns.
MaxRuns == 2
\* Largest --max-workers explored.
MaxWorkers == 2

\* ----------------------------------------------------------------- helpers
None == << >>
Some(v) == <<v>>
IsNone(o) == o = << >>
Val(o) == o[1]

MinOf(S) == CHOOSE x \in S : \A y \in S : x <= y
MaxOf(S) == CHOOSE x \in S : \A y \in S : y <= x
Range(s) == {s[i] : i \in DOMAIN s}

RECURSIVE Flatten(_)
Flatten(ss) == IF ss = << >> THEN << >> ELSE Head(ss) \o Flatten(Tail(ss))

\* The distinct elements of s in the order of their first occurrence: the
\* iteration order of a dict filled, or of pandas' unique() computed, from s.
RECURSIVE FirstSeen(_)
FirstSeen(s) ==
    IF s = << >> THEN << >>
    ELSE <<Head(s)>> \o FirstSeen(SelectSeq(Tail(s), LAMBDA x : x # Head(s)))

\* Every arrangement of the sequence s.
Perms(s) ==
    {[i \in DOMAIN s |-> s[p[i]]] :
        p \in {q \in [DOMAIN s -> DOMAIN s] : \A i, j \in DOMAIN s : q[i] = q[j] => i = j}}

\* Python round(x, 6) of a time counted in 1e-7 s (inputs avoid exact halves).
Round6(x) == ((x + 5) \div 10) * 10

\* ------------------------------------------------------- the event log
EndNodeMin == 1000
BROADCAST_ADDRESS == 16777215
\* An empty ttlAfterDecr field: pandas reads it as NaN (every TTL of the log
\* is >= 0).
NaN == 0 - 1

Row(t, e, seq, s, d, n, ttl, via, nht) ==
    [simTime |-> t, event |-> e, packetSeq |-> seq, src |-> s, dst |-> d,
     currentNode |-> n, ttlAfterDecr |-> ttl, chosenVia |-> via, nextHopType |-> nht]

\* The flows (src, dst, packetSeq) of the explored logs: the packet 1 of the
\* pair 1000->1001, with every kind of row, and beside it the packet 2 of the
\* same pair and a packet of 1002->1001 that shares packetSeq 1, with their
\* TX_SRC rows and their deliveries at the destination.
MainFlow == <<1000, 1001, 1>>
SideFlows == {<<1000, 1001, 2>>, <<1002, 1001, 1>>}
Flows == {MainFlow} \cup SideFlows
RelayNodes == {7}
TxTimes == {0, 12}
DeliveryTimes == {12, 26}
FwdTimes == {20}
SourceTtls == {5}
\* ttlAfterDecr of a DELIVERED row at the destination, smaller or larger than
\* the source's, and at a relay; of a forwarding row.
TtlsAtDst == {3, 6}
TtlsAtRelay == {4}
FwdVia == {<<BROADCAST_ADDRESS, "BCAST">>, <<1001, "UNICAST">>}

TxRows(f) ==
    {Row(t, "TX_SRC", f[3], f[1], f[2], f[1], ttl, BROADCAST_ADDRESS, "BCAST") :
        t \in TxTimes, ttl \in SourceTtls}
DeliveredRows(f, ttls) ==
    {Row(t, "DELIVERED", f[3], f[1], f[2], f[2], ttl, f[2], "UNICAST") :
        t \in DeliveryTimes, ttl \in ttls}
RelayDeliveredRows(f) ==
    {Row(t, "DELIVERED", f[3], f[1], f[2], n, ttl, f[2], "UNICAST") :
        t \in DeliveryTimes, n \in RelayNodes, ttl \in TtlsAtRelay}
FwdRows(f) ==
    {Row(t, "TX_FWD_DATA", f[3], f[1], f[2], n, ttl, v[1], v[2]) :
        t \in FwdTimes, n \in RelayNodes, ttl \in TtlsAtRelay, v \in FwdVia}
InputRows ==
    UNION {TxRows(MainFlow), DeliveredRows(MainFlow, TtlsAtDst),
           RelayDeliveredRows(MainFlow), FwdRows(MainFlow)}
    \cup UNION {TxRows(f) \cup DeliveredRows(f, {MinOf(TtlsAtDst)}) : f \in SideFlows}
\* Deliveries of the main flow logged without a TTL, and every row of a log.
MissingTtlRows == DeliveredRows(MainFlow, {NaN})
LogRows == InputRows \cup MissingTtlRows

\* list.sort(key=simTime) / a stable sort by simTime ascending.
RECURSIVE SortBySimTime(_)
SortBySimTime(s) ==
    IF s = << >> THEN << >>
    ELSE LET m == MinOf({s[i].simTime : i \in DOMAIN s})
         IN  SelectSeq(s, LAMBDA r : r.simTime = m)
                 \o SortBySimTime(SelectSeq(s, LAMBDA r : r.simTime # m))

\* min(seq, key=simTime): the first element of minimal simTime.
FirstMin(s) ==
    LET m == MinOf({s[i].simTime : i \in DOMAIN s})
    IN  s[MinOf({i \in DOMAIN s : s[i].simTime = m})]

\* ------------------------------------------- paths_report.compute_report
TripletOf(r) == <<r.src, r.dst, r.packetSeq>>

\* by_triplet's keys in insertion order.
triplet_order(rs) == FirstSeen([i \in DOMAIN rs |-> TripletOf(rs[i])])

\* by_triplet[key] after the sort of every list; [] for an absent key (.get).
by_triplet(rs, key) == SortBySimTime(SelectSeq(rs, LAMBDA r : TripletOf(r) = key))

PairLess(a, b) == a[1] < b[1] \/ (a[1] = b[1] /\ a[2] < b[2])
RECURSIVE SortedPairs(_)
SortedPairs(S) ==
    IF S = {} THEN << >>
    ELSE LET m == CHOOSE a \in S : \A b \in S \ {a} : PairLess(a, b)
         IN  <<m>> \o SortedPairs(S \ {m})

\* The end-node pairs of the log, sorted.
pairs(rs) ==
    SortedPairs({<<r.src, r.dst>> : r \in {x \in Range(rs) :
                    x.src >= EndNodeMin /\ x.dst >= EndNodeMin}})

\* The rows of every flow of the pair, flow after flow in by_triplet's order.
pair_rows(rs, src, dst) ==
    LET keys == SelectSeq(triplet_order(rs), LAMBDA k : k[1] = src /\ k[2] = dst)
    IN  Flatten([i \in DOMAIN keys |-> by_triplet(rs, keys[i])])

tx_events(rs, src, dst) == SelectSeq(pair_rows(rs, src, dst), LAMBDA r : r.event = "TX_SRC")

IsDeliveredAt(r, dst) == r.event = "DELIVERED" /\ r.currentNode = dst

\* A faulty variant: the last delivery at dst instead of the first.
last_delivered(seq_rows, dst) ==
    LET ds == SelectSeq(seq_rows, LAMBDA r : IsDeliveredAt(r, dst))
    IN  IF ds = << >> THEN None ELSE Some(ds[Len(ds)])
\* next((r for r in seq_rows if DELIVERED at dst), None)
first_delivered(seq_rows, dst) ==
    LET ds == SelectSeq(seq_rows, LAMBDA r : IsDeliveredAt(r, dst))
    IN  IF ds = << >> THEN None ELSE Some(Head(ds))

\* One report row; the pair has a TX_SRC event. positions and run_index are
\* the defaults (None).
report_row(rs, src, dst) ==
    LET first_tx == FirstMin(tx_events(rs, src, dst))
        seq_rows == by_triplet(rs, <<src, dst, first_tx.packetSeq>>)
        fd       == first_delivered(seq_rows, dst)
        copies_received ==
            IF ~IsNone(fd)
            THEN Len(SelectSeq(seq_rows, LAMBDA r : IsDeliveredAt(r, dst)))
            ELSE Len(SelectSeq(pair_rows(rs, src, dst), LAMBDA r : IsDeliveredAt(r, dst)))
    IN  [run_index |-> None,
         src |-> src,
         dst |-> dst,
         distance_m |-> None,
         delivered |-> IF copies_received > 0 THEN 1 ELSE 0,
         transit_time_s |->
            IF IsNone(fd) THEN None ELSE Some(Round6(Val(fd).simTime - first_tx.simTime)),
         first_packet_hop_count |->
            IF IsNone(fd) THEN None ELSE Some(first_tx.ttlAfterDecr - Val(fd).ttlAfterDecr),
         copies_received_at_dst_for_first_packet |-> copies_received,
         first_tx_time_s |-> Round6(first_tx.simTime),
         first_delivery_time_s |-> IF IsNone(fd) THEN None ELSE Some(Round6(Val(fd).simTime))]

compute_report(rs) ==
    LET ps == SelectSeq(pairs(rs), LAMBDA p : tx_events(rs, p[1], p[2]) # << >>)
    IN  [i \in DOMAIN ps |-> report_row(rs, ps[i][1], ps[i][2])]

\* ------------------------- endnode_distance_tracker.analyze_packet_paths
\* df[df['packetSeq'] == seq].sort_values('simTime'): for the few rows of one
\* packet the sort keeps rows of equal simTime in arrival order.
packet_events(df, packet_seq) ==
    SortBySimTime(SelectSeq(df, LAMBDA r : r.packetSeq = packet_seq))

\* df['packetSeq'].unique()
unique_seqs(df) == FirstSeen([i \in DOMAIN df |-> df[i].packetSeq])

event_data(event) ==
    [time |-> event.simTime, event_type |-> event.event, node |-> event.currentNode,
     next_hop |-> event.chosenVia, hop_type |-> event.nextHopType]

AppendNew(nodes, n) == IF n \in Range(nodes) THEN nodes ELSE Append(nodes, n)

path_info_init(packet_seq) ==
    [packet_seq |-> packet_seq, source |-> None, destination |-> None,
     generated_time |-> None, delivered_time |-> None, path_nodes |-> << >>,
     hop_count |-> 0, transit_time |-> None, delivered |-> FALSE,
     path_events |-> << >>, deliver_times |-> << >>, transit_times |-> << >>,
     initial_ttl |-> None, deliver_hop_counts |-> << >>,
     first_transit_time |-> None, first_hop_count |-> None,
     nodes_seen |-> {}]

\* A faulty variant: the field taken as a number whatever it holds.
int_unchecked(ttl) == Some(ttl)
\* int(event['ttlAfterDecr']) if not pd.isna(event['ttlAfterDecr']) else None
int_or_none(ttl) == IF ttl = NaN THEN None ELSE Some(ttl)

\* The TX_SRC branch, the same in both scripts.
on_tx_src(p, event) ==
    [p EXCEPT !.source = Some(event.src),
              !.destination = Some(event.dst),
              !.generated_time = Some(event.simTime),
              !.path_nodes = Append(@, event.currentNode),
              !.initial_ttl = int_or_none(event.ttlAfterDecr)]

\* The TX_FWD_DATA / TX_FWD_ACK branch of analyze_packet_paths.
on_forward(p, event) ==
    IF event.currentNode \in Range(p.path_nodes) THEN p
    ELSE [p EXCEPT !.path_nodes = Append(@, event.currentNode),
                   !.hop_count = @ + 1]

\* The DELIVERED branch of analyze_packet_paths.
on_delivered(p, event) ==
    LET t  == event.simTime
        at_destination == IsNone(p.destination) \/ event.currentNode = Val(p.destination)
        p1 == [p EXCEPT !.deliver_times = Append(@, t),
                        !.delivered = TRUE,
                        !.delivered_time = Some(t),
                        !.path_nodes = AppendNew(@, event.currentNode)]
        p2 == IF ~IsNone(p1.generated_time) /\ at_destination
              THEN [p1 EXCEPT !.transit_time = Some(t - Val(p1.generated_time)),
                              !.transit_times = Append(@, t - Val(p1.generated_time))]
              ELSE p1
        ttl_at_delivery == int_or_none(event.ttlAfterDecr)
        hops == Val(p2.initial_ttl) - Val(ttl_at_delivery)
    IN  IF IsNone(p2.initial_ttl) \/ IsNone(ttl_at_delivery) THEN p2
        ELSE IF hops < 0 THEN p2
        ELSE LET p3 == [p2 EXCEPT !.deliver_hop_counts = Append(@, hops),
                                  !.hop_count = hops]
             IN  IF IsNone(p3.first_transit_time) /\ at_destination
                 THEN [p3 EXCEPT !.first_transit_time =
                                    IF ~IsNone(p3.generated_time)
                                    THEN Some(t - Val(p3.generated_time)) ELSE @,
                                 !.first_hop_count = Some(hops)]
                 ELSE p3

\* One iteration of the loop over the packet's events.
path_step(p, event) ==
    LET q == [p EXCEPT !.path_events = Append(@, event_data(event)),
                       !.nodes_seen = @ \cup {event.currentNode}]
    IN  IF event.event = "TX_SRC" THEN on_tx_src(q, event)
        ELSE IF event.event \in {"TX_FWD_DATA", "TX_FWD_ACK"} THEN on_forward(q, event)
        ELSE IF event.event = "DELIVERED" THEN on_delivered(q, event)
        ELSE q

RECURSIVE scan_events(_, _)
scan_events(p, events) ==
    IF events = << >> THEN p ELSE scan_events(path_step(p, Head(events)), Tail(events))

\* packet_paths: packet_seq -> path_info (nodes_processed is nodes_seen sorted,
\* unique_nodes_processed its size).
analyze_packet_paths(df) ==
    [packet_seq \in Range(unique_seqs(df)) |->
        scan_events(path_info_init(packet_seq), packet_events(df, packet_seq))]

\* ---------------------------- dsdv_rescue_analysis.analyze_dsdv_packet_paths
dsdv_path_info_init(packet_seq) ==
    [packet_seq |-> packet_seq, source |-> None, destination |-> None,
     generated_time |-> None, delivered_time |-> None, path_nodes |-> << >>,
     hop_count |-> 0, transit_time |-> None, delivered |-> FALSE,
     path_events |-> << >>, unicast_forwards |-> 0, broadcast_forwards |-> 0,
     initial_ttl |-> None, deliver_hop_counts |-> << >>,
     first_transit_time |-> None, first_hop_count |-> None,
     copies_at_destination |-> 0, unique_nodes_processed |-> {}]

\* The TX_FWD_DATA / TX_FWD_ACK branch of analyze_dsdv_packet_paths.
dsdv_on_forward(p, event) ==
    LET q == on_forward(p, event)
    IN  IF event.chosenVia = BROADCAST_ADDRESS
        THEN [q EXCEPT !.broadcast_forwards = @ + 1]
        ELSE [q EXCEPT !.unicast_forwards = @ + 1]

\* The DELIVERED branch of analyze_dsdv_packet_paths.
dsdv_on_delivered(p, event) ==
    LET t  == event.simTime
        p1 == [p EXCEPT !.delivered = TRUE,
                        !.copies_at_destination = @ + 1,
                        !.delivered_time = IF IsNone(@) THEN Some(t) ELSE @,
                        !.path_nodes = AppendNew(@, event.currentNode)]
        p2 == IF ~IsNone(p1.generated_time) /\ IsNone(p1.first_transit_time)
              THEN [p1 EXCEPT !.first_transit_time = Some(t - Val(p1.generated_time)),
                              !.transit_time = Some(t - Val(p1.generated_time))]
              ELSE p1
        ttl_at_delivery == int_or_none(event.ttlAfterDecr)
        hops == Val(p2.initial_ttl) - Val(ttl_at_delivery)
    IN  IF IsNone(p2.initial_ttl) \/ IsNone(ttl_at_delivery) THEN p2
        ELSE IF hops < 0 THEN p2
        ELSE [p2 EXCEPT !.deliver_hop_counts = Append(@, hops),
                        !.hop_count = hops,
                        !.first_hop_count = IF IsNone(@) THEN Some(hops) ELSE @]

dsdv_path_step(p, event) ==
    LET q == [p EXCEPT !.path_events = Append(@, event_data(event)),
                       !.unique_nodes_processed = @ \cup {event.currentNode}]
    IN  IF event.event = "TX_SRC" THEN on_tx_src(q, event)
        ELSE IF event.event \in {"TX_FWD_DATA", "TX_FWD_ACK"} THEN dsdv_on_forward(q, event)
        ELSE IF event.event = "DELIVERED" THEN dsdv_on_delivered(q, event)
        ELSE q

RECURSIVE dsdv_scan_events(_, _)
dsdv_scan_events(p, events) ==
    IF events = << >> THEN p
    ELSE dsdv_scan_events(dsdv_path_step(p, Head(events)), Tail(events))

analyze_dsdv_packet_paths(df) ==
    [packet_seq \in Range(unique_seqs(df)) |->
        dsdv_scan_events(dsdv_path_info_init(packet_seq), packet_events(df, packet_seq))]

\* --------------------- endnode_distance_tracker.generate_detailed_report
\* transit_times of the report: every transit time of every delivered packet.
report_transit_times(paths, order) ==
    Flatten([i \in DOMAIN order |->
        LET p == paths[order[i]]
        IN  IF ~p.delivered THEN << >>
            ELSE IF p.transit_times # << >> THEN p.transit_times
            ELSE IF ~IsNone(p.transit_time) THEN <<Val(p.transit_time)>>
            ELSE << >>])

\* Section 3 formats generated_time with ':.3f', a TypeError on None.
packet_section_raises(p) == IsNone(p.generated_time)

\* Section 5 divides by max(transit_times), a ZeroDivisionError on 0.
throughput_raises(df, paths, order) ==
    LET tts == report_transit_times(paths, order)
    IN  /\ Len(SelectSeq(df, LAMBDA r : r.event = "TX_SRC")) > 0
        /\ Len(SelectSeq(df, LAMBDA r : r.event = "DELIVERED")) > 0
        /\ tts # << >>
        /\ MaxOf(Range(tts)) = 0

\* What section 3 prints of one packet: the final (first-arrival) metrics and
\* the per-delivery hop counts (or the legacy hop count).
packet_section(p) ==
    [packet_seq |-> p.packet_seq, delivered |-> p.delivered,
     final_transit_time |-> IF p.delivered THEN p.first_transit_time ELSE None,
     final_hop_count |-> IF p.delivered /\ ~IsNone(p.first_hop_count)
                         THEN Some(Val(p.first_hop_count) + 1) ELSE None,
     hop_counts |-> IF p.deliver_hop_counts # << >> THEN p.deliver_hop_counts
                    ELSE <<p.hop_count>>]

\* detect_routing_method: the label of the trace, from the chosenVia of every
\* row (chosenVia is a number in every explored row).
detect_routing_method(df) ==
    LET tx_src_events == Len(SelectSeq(df, LAMBDA r : r.event = "TX_SRC"))
        enqueue_fwd_events == Len(SelectSeq(df, LAMBDA r : r.event = "ENQUEUE_FWD"))
        tx_fwd_events ==
            Len(SelectSeq(df, LAMBDA r : r.event \in {"TX_FWD_DATA", "TX_FWD_ACK"}))
        broadcast_events == Len(SelectSeq(df, LAMBDA r : r.chosenVia = BROADCAST_ADDRESS))
        unicast_events == Len(SelectSeq(df, LAMBDA r : r.chosenVia # BROADCAST_ADDRESS))
    IN  IF df = << >> THEN "unknown"
        ELSE IF broadcast_events > 0 /\ unicast_events = 0
             THEN IF enqueue_fwd_events > tx_fwd_events * 2 THEN "flooding" ELSE "broadcast"
        ELSE IF unicast_events > broadcast_events THEN "routing"
        ELSE IF broadcast_events > 0 /\ unicast_events > 0 THEN "routing"
        ELSE "unknown"

\* Count packet statistics.
total_generated(df) == Len(SelectSeq(df, LAMBDA r : r.event = "TX_SRC"))
total_delivered(df) == Len(SelectSeq(df, LAMBDA r : r.event = "DELIVERED"))

\* The row append_to_summary_csv appends, its counts and its delivery rate:
\* the fraction of total_delivered / total_generated * 100, 0.0 when nothing
\* was generated.
append_to_summary_csv(df, routing_method) ==
    [routing_method |-> routing_method,
     packets_generated |-> total_generated(df),
     packets_delivered |-> total_delivered(df),
     delivery_rate |-> IF total_generated(df) > 0
                       THEN <<total_delivered(df) * 100, total_generated(df)>>
                       ELSE <<0, 1>>]

\* The report: an exception leaves main (nothing catches it before the file
\* is written), else the label of the trace, the per-packet sections in
\* packet_paths' order and the row appended to the summary CSV.
generate_detailed_report(df, paths) ==
    LET order == unique_seqs(df)
    IN  IF \/ \E i \in DOMAIN order : packet_section_raises(paths[order[i]])
           \/ throughput_raises(df, paths, order)
        THEN [raised |-> TRUE, routing_method |-> "", packets |-> << >>, summary |-> None]
        ELSE [raised |-> FALSE,
              routing_method |-> detect_routing_method(df),
              packets |-> [i \in DOMAIN order |-> packet_section(paths[order[i]])],
              summary |-> Some(append_to_summary_csv(df, detect_routing_method(df)))]

\* ------------------------------------------------- the failure scalars
\* Python round(t, 9) of a time counted in 1e-10 s (inputs avoid exact halves).
Round9(t) == ((t + 5) \div 10) * 10

\* A scalar record of a .sca file. module is Some(n) for a module path that
\* holds NODE_TAG '.loRaNodes[' with index n, None for any other module path;
\* value is the number float(value) parses.
Scalar(module, name, value, repetition) ==
    [module |-> module, name |-> name, value |-> value, repetition |-> repetition]
Failure(node, time, repetition) ==
    [node |-> node, time |-> time, repetition |-> repetition]

FailureNodes == {1, 2}
Repetitions == {0, 1}
\* 100 and 102 share the time rounded to 1e-9 s; 110 does not.
FailureTimes == {100, 102, 110}
\* The times at which the second node and the second repetition fail too.
CommonFailureTimes == {100, 110}
\* A failure within the first nanosecond of the run.
EarlyFailureTimes == {1}
InputScalars ==
    {Scalar(Some(1), "failureTime", t, 0) : t \in FailureTimes \cup EarlyFailureTimes}
    \cup {Scalar(Some(p[1]), "failureTime", t, p[2]) :
              p \in {q \in FailureNodes \X Repetitions : q[1] = 1 \/ q[2] = 0},
              t \in CommonFailureTimes}
    \cup {Scalar(Some(1), "failed", 1, 0), Scalar(None, "failureTime", 100, 0)}

\* failures.sort(key=lambda f: (f.repetition, f.time)): stable.
FailureLess(a, b) ==
    a.repetition < b.repetition \/ (a.repetition = b.repetition /\ a.time < b.time)
RECURSIVE SortFailures(_)
SortFailures(fs) ==
    IF fs = << >> THEN << >>
    ELSE LET i == MinOf({k \in DOMAIN fs : \A l \in DOMAIN fs : ~FailureLess(fs[l], fs[k])})
         IN  <<fs[i]>> \o SortFailures(SubSeq(fs, 1, i - 1) \o SubSeq(fs, i + 1, Len(fs)))

\* ---------------------------------- failure_analysis.extract_failures
\* A faulty variant: the key without the rounding of the time.
failure_key_raw(repetition, node, t) == <<repetition, node, t>>
\* The key a failure observation is deduplicated on.
failure_key(repetition, node, t) == <<repetition, node, Round9(t)>>

DedupInit == [failures |-> << >>, seen |-> {}, dropped |-> 0]

\* A faulty variant: the duplicate is counted and kept all the same (the
\* loop's continue left out).
keep_or_drop_no_continue(acc, node, t, rep, keep_duplicates) ==
    LET key == failure_key(rep, node, t)
    IN  [acc EXCEPT !.dropped = IF ~keep_duplicates /\ key \in acc.seen THEN @ + 1 ELSE @,
                    !.seen = @ \cup {key},
                    !.failures = Append(@, Failure(node, t, rep))]
\* The duplicate check of both scripts: count and skip a key seen before,
\* else remember the key and keep the observation.
keep_or_drop(acc, node, t, rep, keep_duplicates) ==
    LET key == failure_key(rep, node, t)
    IN  IF ~keep_duplicates /\ key \in acc.seen
        THEN [acc EXCEPT !.dropped = @ + 1]
        ELSE [acc EXCEPT !.seen = @ \cup {key},
                         !.failures = Append(@, Failure(node, t, rep))]

\* One iteration of extract_failures' loop over the scalars.
extract_step(acc, s, keep_duplicates) ==
    IF s.name = "failureTime" /\ ~IsNone(s.module)
    THEN keep_or_drop(acc, Val(s.module), s.value, s.repetition, keep_duplicates)
    ELSE acc

RECURSIVE extract_loop(_, _, _)
extract_loop(acc, ss, keep_duplicates) ==
    IF ss = << >> THEN acc
    ELSE extract_loop(extract_step(acc, Head(ss), keep_duplicates), Tail(ss), keep_duplicates)

\* <<failures, dropped>>
extract_failures(ss, keep_duplicates) ==
    LET acc == extract_loop(DedupInit, ss, keep_duplicates)
    IN  <<SortFailures(acc.failures), acc.dropped>>

\* ------------------------------------- random_failure_analysis.main
\* read_failures_from_sca: the failureTime scalars of node modules, in file order.
read_failures_from_sca(ss) ==
    LET fs == SelectSeq(ss, LAMBDA s : s.name = "failureTime" /\ ~IsNone(s.module))
    IN  [i \in DOMAIN fs |-> Failure(Val(fs[i].module), fs[i].value, fs[i].repetition)]

RECURSIVE dedup_loop(_, _, _)
dedup_loop(acc, fs, keep_duplicates) ==
    IF fs = << >> THEN acc
    ELSE dedup_loop(keep_or_drop(acc, Head(fs).node, Head(fs).time, Head(fs).repetition,
                                 keep_duplicates),
                    Tail(fs), keep_duplicates)

\* main's deduplication of the failures read: <<dedup, dropped>>, unsorted.
dedup_failures(fs, keep_duplicates) ==
    LET acc == dedup_loop(DedupInit, fs, keep_duplicates)
    IN  <<acc.failures, acc.dropped>>

\* ------------------------------------------------- exact fractions
\* The statistics are computed in exact arithmetic: a fraction is
\* <<numerator, denominator>> with a positive denominator, not reduced.
RatAdd(a, b) == <<a[1] * b[2] + b[1] * a[2], a[2] * b[2]>>
RatSub(a, b) == <<a[1] * b[2] - b[1] * a[2], a[2] * b[2]>>
RatMul(a, b) == <<a[1] * b[1], a[2] * b[2]>>
RatEq(a, b) == a[1] * b[2] = b[1] * a[2]
RatLeq(a, b) == a[1] * b[2] <= b[1] * a[2]
RECURSIVE SumSeq(_)
SumSeq(s) == IF s = << >> THEN 0 ELSE Head(s) + SumSeq(Tail(s))
RECURSIVE RatSum(_)
RatSum(s) == IF s = << >> THEN <<0, 1>> ELSE RatAdd(Head(s), RatSum(Tail(s)))
\* math.sqrt(q), kept as the root of the fraction q.
Sqrt(q) == [sqrt_of |-> q]
\* 1 - math.exp(-x), kept as its exponent x >= 0: it is 0 exactly when x is 0
\* and grows with x.
OneMinusExp(x) == [one_minus_exp_neg |-> x]

\* ------------------------------------------- binary floating point
\* Python floats are binary floating-point numbers: every operation returns
\* the representable number nearest to the exact result, a tie going to the
\* even mantissa. The model keeps that rounding with a mantissa of
\* MantissaBits bits (53 in the program); every failure time of the inputs is
\* representable.
MantissaBits == 6
RECURSIVE Pow2(_)
Pow2(k) == IF k = 0 THEN 1 ELSE 2 * Pow2(k - 1)

\* num/den rounded to the nearest integer, a tie to the even one.
RoundHalfEven(num, den) ==
    LET q == num \div den
        r == num % den
    IN  IF 2 * r < den THEN q
        ELSE IF 2 * r > den THEN q + 1
        ELSE IF q % 2 = 0 THEN q ELSE q + 1

\* The exponent e with 2^(MantissaBits-1) <= (n/d) / 2^e < 2^MantissaBits, n > 0.
RECURSIVE FloatExponent(_, _, _)
FloatExponent(n, d, e) ==
    LET num == IF e < 0 THEN n * Pow2(0 - e) ELSE n
        den == IF e > 0 THEN d * Pow2(e) ELSE d
    IN  IF num < Pow2(MantissaBits - 1) * den THEN FloatExponent(n, d, e - 1)
        ELSE IF num >= Pow2(MantissaBits) * den THEN FloatExponent(n, d, e + 1)
        ELSE e

\* The float nearest to the fraction q, as a fraction: the sign is kept and
\* the magnitude rounded.
Float(q) ==
    IF q[1] = 0 THEN <<0, 1>>
    ELSE LET n == IF q[1] < 0 THEN 0 - q[1] ELSE q[1]
             sign == IF q[1] < 0 THEN 0 - 1 ELSE 1
             e == FloatExponent(n, q[2], 0)
             m == RoundHalfEven(IF e < 0 THEN n * Pow2(0 - e) ELSE n,
                                IF e > 0 THEN q[2] * Pow2(e) ELSE q[2])
         IN  IF e < 0 THEN <<sign * m, Pow2(0 - e)>> ELSE <<sign * m * Pow2(e), 1>>

\* ------------------------- random_failure_analysis.main: the statistics
\* sorted(..., key=time) of failure records: stable.
RECURSIVE SortByTime(_)
SortByTime(fs) ==
    IF fs = << >> THEN << >>
    ELSE LET m == MinOf({fs[i].time : i \in DOMAIN fs})
         IN  SelectSeq(fs, LAMBDA f : f.time = m)
                 \o SortByTime(SelectSeq(fs, LAMBDA f : f.time # m))

\* sorted(by_rep.keys())
RECURSIVE SortedSet(_)
SortedSet(S) == IF S = {} THEN << >> ELSE <<MinOf(S)>> \o SortedSet(S \ {MinOf(S)})

\* A faulty variant: equal times merged, sorted(set(times)).
sorted_distinct(ts) == SortedSet(Range(ts))
\* sorted(times)
RECURSIVE SortedTimes(_)
SortedTimes(ts) ==
    IF ts = << >> THEN << >>
    ELSE LET m == MinOf(Range(ts))
         IN  SelectSeq(ts, LAMBDA t : t = m) \o SortedTimes(SelectSeq(ts, LAMBDA t : t # m))

\* The loop of km_survival over times_sorted from index i on.
RECURSIVE km_loop(_, _, _, _)
km_loop(times_sorted, i, surv, km) ==
    IF i > Len(times_sorted) THEN km
    ELSE LET n == Len(times_sorted)
             s == RatMul(surv, RatSub(<<1, 1>>, <<1, n - (i - 1)>>))
         IN  km_loop(times_sorted, i + 1, s, Append(km, <<times_sorted[i], s>>))

\* A faulty variant: the input order kept.
km_survival_unsorted(times) == km_loop(times, 1, <<1, 1>>, << >>)
\* Kaplan-Meier (no censoring): the points (t, surv).
km_survival(times) == km_loop(SortedTimes(times), 1, <<1, 1>>, << >>)

\* by_rep[rep]: the failures of the repetition, in dedup's order.
by_rep(dedup, rep) == SelectSeq(dedup, LAMBDA f : f.repetition = rep)

\* A faulty variant: by_rep[rep] as it stands, not sorted.
series_unsorted(dedup, rep) == by_rep(dedup, rep)
\* series: the failures of the repetition sorted by time.
series(dedup, rep) == SortByTime(by_rep(dedup, rep))

\* Inter-failure intervals.
intervals_of(times) == [i \in 1..(Len(times) - 1) |-> times[i + 1] - times[i]]

\* A faulty variant: the population variance, divided by the number of intervals.
var_iv_population(intervals, mean_iv) ==
    LET sq == [i \in DOMAIN intervals |->
                  RatMul(RatSub(<<intervals[i], 1>>, mean_iv),
                         RatSub(<<intervals[i], 1>>, mean_iv))]
    IN  IF Len(intervals) > 1
        THEN RatMul(RatSum(sq), <<1, Len(intervals)>>) ELSE <<0, 1>>
\* var_iv: sum((x-mean_iv)**2)/(len-1) if len>1 else 0.
var_iv(intervals, mean_iv) ==
    LET sq == [i \in DOMAIN intervals |->
                  RatMul(RatSub(<<intervals[i], 1>>, mean_iv),
                         RatSub(<<intervals[i], 1>>, mean_iv))]
    IN  IF Len(intervals) > 1
        THEN RatMul(RatSum(sq), <<1, Len(intervals) - 1>>) ELSE <<0, 1>>

\* stats.write(f'Done.\\n') / fh.write(f'Done.\\n'): the text of the line and
\* the number of dropped duplicates it states, none.
DoneLine == [text |-> "Done.", dropped |-> None]

\* A faulty variant: only an empty series is refused.
not_enough_empty(times) == Len(times) < 1
\* if len(times) < 2
not_enough(times) == Len(times) < 2

\* What main writes for a repetition without enough failures: the line, no
\* statistics, no file.
NotEnough(rep) ==
    [rep |-> rep, raised |-> FALSE,
     line |-> "  Not enough failures for statistics.",
     failures |-> None, first |-> None, last |-> None,
     intervals |-> << >>, mean_iv |-> None, var_iv |-> None, std_iv |-> None,
     cov_iv |-> None, lambda_hat |-> None,
     intervals_csv |-> << >>, cdf_csv |-> << >>, km_csv |-> << >>]

\* A faulty variant: the division without its guard (a zero mean gives the
\* fraction 1/0).
lambda_hat_unguarded(mean_iv) == <<mean_iv[2], mean_iv[1]>>
\* lambda_hat = 1/mean_iv if mean_iv>0 else 0
lambda_hat_of(mean_iv) == IF mean_iv[1] > 0 THEN <<mean_iv[2], mean_iv[1]>> ELSE <<0, 1>>

\* cov_iv = std_iv/mean_iv if mean_iv>0 else 0, kept as the root of
\* var_iv/mean_iv^2.
cov_iv_of(var, mean_iv) ==
    IF mean_iv[1] > 0
    THEN Sqrt(RatMul(var, <<mean_iv[2] * mean_iv[2], mean_iv[1] * mean_iv[1]>>))
    ELSE Sqrt(<<0, 1>>)

\* grid = 100
grid == 100

\* tt = times[0] + span*(g/grid) with span = times[-1]-times[0], every
\* operation rounded as a float.
grid_time(first, last, g) ==
    LET span == Float(<<last - first, 1>>)
    IN  Float(RatAdd(<<first, 1>>, Float(RatMul(span, Float(<<g, grid>>)))))

\* The grid of every times[0] and times[-1] of the inputs, computed once.
AllFailureTimes == FailureTimes \cup EarlyFailureTimes
\* (Comparing the table makes TLC tabulate it.)
grid_times ==
    LET tt == [p \in AllFailureTimes \X AllFailureTimes |->
                  [k \in 1..(grid + 1) |-> grid_time(p[1], p[2], k - 1)]]
    IN  IF tt = tt THEN tt ELSE << >>

\* emp = sum(1 for x in times if x <= tt)/len(times)
empirical_cdf(times, tt) ==
    <<Cardinality({i \in DOMAIN times : RatLeq(<<times[i], 1>>, tt)}), Len(times)>>

\* exp_cdf = 1 - math.exp(-lambda_hat*(tt-times[0])) if tt>=times[0] else 0
exponential_cdf(times, tt, lambda_hat) ==
    IF RatLeq(<<times[1], 1>>, tt)
    THEN OneMinusExp(RatMul(lambda_hat, RatSub(tt, <<times[1], 1>>)))
    ELSE OneMinusExp(<<0, 1>>)

\* The rows of empirical_vs_exponential_rep{rep}.csv, g = 0..grid.
cdf_rows(times, lambda_hat) ==
    [k \in 1..(grid + 1) |->
        LET tt == grid_times[<<times[1], times[Len(times)]>>][k]
        IN  [time |-> tt,
             empirical_cdf |-> empirical_cdf(times, tt),
             exponential_cdf |-> exponential_cdf(times, tt, lambda_hat)]]

\* The statistics of one repetition. sum(intervals)/len(intervals) is a
\* ZeroDivisionError on an empty list. The values are the ones main computes;
\* the files print them with a fixed number of decimals.
rep_stats(rep, times) ==
    LET intervals == intervals_of(times)
        mean_iv == <<SumSeq(intervals), Len(intervals)>>
        var == var_iv(intervals, mean_iv)
    IN  IF not_enough(times) THEN NotEnough(rep)
        ELSE IF Len(intervals) = 0 THEN [NotEnough(rep) EXCEPT !.raised = TRUE, !.line = ""]
        ELSE [rep |-> rep, raised |-> FALSE, line |-> "",
              failures |-> Some(Len(times)),
              first |-> Some(times[1]), last |-> Some(times[Len(times)]),
              intervals |-> intervals,
              mean_iv |-> Some(mean_iv),
              var_iv |-> Some(var),
              std_iv |-> Some(Sqrt(var)),
              cov_iv |-> Some(cov_iv_of(var, mean_iv)),
              lambda_hat |-> Some(lambda_hat_of(mean_iv)),
              intervals_csv |->
                  [i \in 1..(Len(times) - 1) |->
                      [intervalIndex |-> i, startTime |-> times[i],
                       endTime |-> times[i + 1],
                       intervalDuration |-> times[i + 1] - times[i]]],
              cdf_csv |-> cdf_rows(times, lambda_hat_of(mean_iv)),
              km_csv |-> km_survival(times)]

\* The loop over the sorted repetitions; an exception ends it.
RECURSIVE stats_loop(_, _, _)
stats_loop(reps, dedup, out) ==
    IF reps = << >> \/ (out # << >> /\ out[Len(out)].raised) THEN out
    ELSE LET sr == series(dedup, Head(reps))
             times == [i \in DOMAIN sr |-> sr[i].time]
         IN  stats_loop(Tail(reps), dedup, Append(out, rep_stats(Head(reps), times)))

\* The outputs of random_failure_analysis.main after the deduplication: what
\* is written per repetition, and the line appended to the statistics file
\* when duplicates were dropped.
random_failure_stats(dedup, dropped_n, keep_duplicates) ==
    LET reps == stats_loop(SortedSet({dedup[i].repetition : i \in DOMAIN dedup}),
                           dedup, << >>)
        raised == reps # << >> /\ reps[Len(reps)].raised
    IN  [raised |-> raised,
         reps |-> reps,
         tail |-> IF ~raised /\ dropped_n > 0 /\ ~keep_duplicates
                  THEN <<DoneLine>> ELSE << >>]

\* ----------------------------------------- failure_analysis.main: outputs
\* write_failures_summary: per repetition its heading and its numbered
\* failures, in the order of the failures (times are printed with 3 decimals).
write_failures_summary(fs) ==
    LET reps == SortedSet({fs[i].repetition : i \in DOMAIN fs})
    IN  [k \in DOMAIN reps |->
            LET lst == by_rep(fs, reps[k])
            IN  [rep |-> reps[k],
                 lines |-> [i \in DOMAIN lst |->
                              [i |-> i, node |-> lst[i].node, time |-> lst[i].time]]]]

\* failures_summary.txt as main leaves it.
failures_summary(fs, dropped_n, keep_duplicates) ==
    [raised |-> FALSE,
     reps |-> write_failures_summary(fs),
     tail |-> IF dropped_n > 0 /\ ~keep_duplicates THEN <<DoneLine>> ELSE << >>]

\* ------------------------------------------ the records of csv.DictReader
\* The flow analyze_paths_csv is asked to analyse (src_id, dst_id).
AnalysedFlow == <<MainFlow[1], MainFlow[2]>>

\* A field of a record as DictReader yields it: a string that reads as the
\* number num, another string (text), or None, the value DictReader gives
\* the trailing columns of a line shorter than the header.
NumField(v) == [kind |-> "num", num |-> v, text |-> ""]
TextField(s) == [kind |-> "text", num |-> 0, text |-> s]
NoneField == [kind |-> "none", num |-> 0, text |-> ""]

\* The columns of paths.csv, in the header's order.
Columns ==
    <<"simTime", "event", "packetSeq", "src", "dst", "currentNode",
      "ttlAfterDecr", "chosenVia", "nextHopType">>

\* The line of paths.csv that spells the row r.
RecordOf(r) ==
    [simTime |-> NumField(r.simTime), event |-> TextField(r.event),
     packetSeq |-> NumField(r.packetSeq), src |-> NumField(r.src),
     dst |-> NumField(r.dst), currentNode |-> NumField(r.currentNode),
     ttlAfterDecr |-> NumField(r.ttlAfterDecr), chosenVia |-> NumField(r.chosenVia),
     nextHopType |-> TextField(r.nextHopType)]

\* The record of a line cut after its first n columns.
Truncated(rec, n) ==
    [c \in DOMAIN rec |->
        IF \E i \in 1..n : Columns[i] = c THEN rec[c] ELSE NoneField]

\* The exception of int(field) / float(field), "" when it converts.
number_error(f) ==
    IF f.kind = "num" THEN ""
    ELSE IF f.kind = "text" THEN "ValueError" ELSE "TypeError"
\* The exception of field.strip(), "" on a string.
strip_error(f) == IF f.kind = "none" THEN "AttributeError" ELSE ""

\* The first exception of a sequence of conversions evaluated in order.
first_error(errs) ==
    IF \A i \in DOMAIN errs : errs[i] = "" THEN ""
    ELSE errs[MinOf({i \in DOMAIN errs : errs[i] # ""})]

\* The explored records: every well-formed row, and malformed variants of a
\* source transmission: a non-numeric packetSeq, a line cut after dst, a line
\* that lacks only its last column.
MalformedRecords ==
    LET tx == RecordOf(CHOOSE r \in TxRows(MainFlow) : r.simTime = MinOf(TxTimes))
    IN  {[tx EXCEPT !.packetSeq = TextField("abc")],
         Truncated(tx, 5),
         Truncated(tx, 8)}
InputRecords == {RecordOf(r) : r \in InputRows} \cup MalformedRecords

\* ---------------------------------- paths_report.read_paths_csv
\* The exception one entry raises in Row(...), "" when it converts; event and
\* nextHopType are taken as they are.
read_entry_error(e) ==
    first_error(<<number_error(e.simTime), number_error(e.packetSeq),
                  number_error(e.src), number_error(e.dst),
                  number_error(e.currentNode), number_error(e.ttlAfterDecr),
                  number_error(e.chosenVia)>>)

read_entry(e) ==
    Row(e.simTime.num, e.event.text, e.packetSeq.num, e.src.num, e.dst.num,
        e.currentNode.num, e.ttlAfterDecr.num, e.chosenVia.num, e.nextHopType.text)

\* read_paths_csv: the rows, unless an entry raises (nothing catches it).
read_paths_csv(recs) ==
    IF \E i \in DOMAIN recs : read_entry_error(recs[i]) # ""
    THEN [raised |-> TRUE, rows |-> << >>]
    ELSE [raised |-> FALSE, rows |-> [i \in DOMAIN recs |-> read_entry(recs[i])]]

\* --------------------------- analyze_100_packet_scenario.analyze_paths_csv
\* dict.get(k, default) and d[k] = v on a dict held as a function.
Get(d, k, default) == IF k \in DOMAIN d THEN d[k] ELSE default
Put(d, k, v) == [x \in DOMAIN d \cup {k} |-> IF x = k THEN v ELSE d[x]]

\* The exception of the conversions of one row, in the order of the try block.
scenario_row_error(row) ==
    first_error(<<strip_error(row.event), number_error(row.packetSeq),
                  number_error(row.src), number_error(row.dst),
                  strip_error(row.nextHopType), number_error(row.simTime),
                  number_error(row.currentNode)>>)

ScenarioInit ==
    [raised |-> FALSE, sent_packet_seqs |-> {}, delivered_counts |-> << >>,
     unicast_count |-> 0, broadcast_count |-> 0, tx_times |-> << >>,
     first_delivery_times |-> << >>, unique_nodes |-> {}]

\* The body of the loop for a row of the analysed flow.
scenario_count(acc, event, seq, next_hop_type, sim_time, current_node) ==
    LET a1 == [acc EXCEPT !.unique_nodes = @ \cup {current_node}]
        a2 == IF event = "TX_SRC"
              THEN [a1 EXCEPT !.sent_packet_seqs = @ \cup {seq},
                              !.tx_times = Put(@, seq, sim_time)]
              ELSE a1
        a3 == IF event = "DELIVERED"
              THEN [a2 EXCEPT !.delivered_counts = Put(@, seq, Get(@, seq, 0) + 1),
                              !.first_delivery_times =
                                  IF seq \in DOMAIN @ THEN @ ELSE Put(@, seq, sim_time)]
              ELSE a2
    IN  IF event \in {"TX_SRC", "TX_FWD_DATA"}
        THEN IF next_hop_type = "UNICAST" THEN [a3 EXCEPT !.unicast_count = @ + 1]
             ELSE IF next_hop_type = "BCAST" THEN [a3 EXCEPT !.broadcast_count = @ + 1]
             ELSE a3
        ELSE a3

\* One row of the reader: KeyError and ValueError skip the row, any other
\* exception leaves the function; rows of other flows are passed over.
scenario_step(acc, row, src_id, dst_id) ==
    LET err == scenario_row_error(row)
    IN  IF acc.raised THEN acc
        ELSE IF err \in {"KeyError", "ValueError"} THEN acc
        ELSE IF err # "" THEN [acc EXCEPT !.raised = TRUE]
        ELSE IF row.src.num # src_id \/ row.dst.num # dst_id THEN acc
        ELSE scenario_count(acc, row.event.text, row.packetSeq.num,
                            row.nextHopType.text, row.simTime.num, row.currentNode.num)

RECURSIVE scenario_loop(_, _, _, _)
scenario_loop(acc, recs, src_id, dst_id) ==
    IF recs = << >> THEN acc
    ELSE scenario_loop(scenario_step(acc, Head(recs), src_id, dst_id),
                       Tail(recs), src_id, dst_id)

\* A faulty variant: the rule of detect_routing_method, more unicast than
\* broadcast.
routing_mode_majority(unicast_count, broadcast_count) ==
    IF unicast_count > broadcast_count THEN "DSDV" ELSE "FLOODING"
\* Auto-detect routing mode.
routing_mode(unicast_count, broadcast_count) ==
    IF unicast_count > broadcast_count * 2 THEN "DSDV" ELSE "FLOODING"

\* An exception left the function: nothing is printed or written.
ScenarioRaised ==
    [raised |-> TRUE, routing_mode |-> "", unicast_count |-> 0, broadcast_count |-> 0,
     total_sent |-> 0, delivered_at_least_once |-> 0, pdr |-> <<0, 1>>,
     latencies |-> << >>, delivered_counts |-> << >>, num_unique_nodes |-> 0]

\* What the run prints and appends to the summary CSV; pdr is the fraction
\* <<numerator, denominator>> of 100.0 * delivered_at_least_once / expected_packets.
analyze_paths_csv(recs, src_id, dst_id, expected_packets) ==
    LET acc == scenario_loop(ScenarioInit, recs, src_id, dst_id)
        expected_range == 0..(expected_packets - 1)
        delivered_at_least_once ==
            Cardinality({seq \in expected_range : Get(acc.delivered_counts, seq, 0) > 0})
    IN  IF acc.raised THEN ScenarioRaised
        ELSE
        [raised |-> FALSE,
         routing_mode |-> routing_mode(acc.unicast_count, acc.broadcast_count),
         unicast_count |-> acc.unicast_count,
         broadcast_count |-> acc.broadcast_count,
         total_sent |-> Cardinality(acc.sent_packet_seqs),
         delivered_at_least_once |-> delivered_at_least_once,
         pdr |-> IF expected_packets > 0
                 THEN <<100 * delivered_at_least_once, expected_packets>> ELSE <<0, 1>>,
         latencies |->
            [seq \in {q \in expected_range :
                        q \in DOMAIN acc.tx_times /\ q \in DOMAIN acc.first_delivery_times} |->
                acc.first_delivery_times[seq] - acc.tx_times[seq]],
         delivered_counts |-> [seq \in expected_range |-> Get(acc.delivered_counts, seq, 0)],
         num_unique_nodes |-> Cardinality(acc.unique_nodes)]

\* ------------------------------------------------- analyze_success_rates
\* A file name is the sequence of its lower-case words, the separators
\* between them left out: <<"routing", "two", "pair", "report">> is
\* routing_two_pair_report.csv.
NumberWords == {"two", "four", "six", "eight", "ten"}
\* pairs_map; the words of the explored names only.
pairs_map(w) == IF w = "two" THEN 2 ELSE IF w = "four" THEN 4 ELSE IF w = "six" THEN 6
                ELSE IF w = "eight" THEN 8 ELSE 10

\* parse_meta: <<scenario, pairs>>, pairs None when no number word stands
\* before "pair".
parse_meta(name) ==
    LET scenario == IF "routing" \in Range(name) THEN "routing"
                    ELSE IF "flooding" \in Range(name) THEN "flooding" ELSE "unknown"
        m == {i \in 1..(Len(name) - 1) : name[i] \in NumberWords /\ name[i + 1] = "pair"}
    IN  <<scenario, IF m = {} THEN None ELSE Some(pairs_map(name[MinOf(m)]))>>

\* A row of a pair report as load_csv_rows keeps it, each field as parse_int
\* reads it: None for an unreadable run_index, src, dst or delivered.
ReportRow(run_index, src, dst, delivered) ==
    [run_index |-> run_index, src |-> src, dst |-> dst, delivered |-> delivered]

\* The explored pair reports: names of three keys, two of them of the key
\* (routing, 2) and one without scenario or pair count; contents of one or two
\* runs with success rates 1, 1/2, 0 and 1, 1/3 (beside a row whose src is not
\* a number), and one without a readable run.
FileNames ==
    {<<"routing", "two", "pair", "report">>,
     <<"rerun", "routing", "two", "pair", "report">>,
     <<"flooding", "two", "pair", "report">>,
     <<"routing", "four", "pair", "report">>,
     <<"pair", "report">>}
FileContents ==
    {<<ReportRow(Some(0), Some(1000), Some(1001), Some(1))>>,
     <<ReportRow(Some(0), Some(1000), Some(1001), Some(1)),
       ReportRow(Some(0), Some(1002), Some(1001), Some(0))>>,
     <<ReportRow(Some(1), Some(1000), Some(1001), Some(1)),
       ReportRow(Some(0), Some(1000), Some(1001), Some(0))>>,
     <<ReportRow(Some(0), Some(1000), Some(1001), None),
       ReportRow(Some(0), Some(1002), Some(1001), Some(1)),
       ReportRow(Some(0), Some(1001), Some(1000), Some(0)),
       ReportRow(Some(0), None, Some(1001), Some(1))>>,
     <<ReportRow(None, Some(1000), Some(1001), Some(1)),
       ReportRow(Some(1), Some(1000), None, Some(1))>>}
InputFiles == {[name |-> n, rows |-> c] : n \in FileNames, c \in FileContents}

\* if run_index is None or src is None or dst is None: continue
is_skipped(r) == IsNone(r.run_index) \/ IsNone(r.src) \/ IsNone(r.dst)

\* by_run's keys in insertion order, the skipped rows left out.
run_order(rs) ==
    LET kept == SelectSeq(rs, LAMBDA r : ~is_skipped(r))
    IN  FirstSeen([i \in DOMAIN kept |-> Val(kept[i].run_index)])

\* by_run[run]: the rows of the run that were not skipped.
triples_of(rs, run) == SelectSeq(rs, LAMBDA r : ~is_skipped(r) /\ r.run_index = Some(run))

\* A faulty variant: delivered rows over rows.
success_rate_by_rows(rs, run) ==
    LET triples == triples_of(rs, run)
    IN  <<Cardinality({i \in DOMAIN triples : triples[i].delivered = Some(1)}), Len(triples)>>
\* success_rate_per_run[run]: delivered pairs over unique pairs, a fraction.
success_rate_of_run(rs, run) ==
    LET triples == triples_of(rs, run)
        unique_pairs == {<<triples[i].src, triples[i].dst>> : i \in DOMAIN triples}
        delivered_pairs ==
            {pr \in unique_pairs :
                \E i \in DOMAIN triples :
                    /\ triples[i].src = pr[1] /\ triples[i].dst = pr[2]
                    /\ triples[i].delivered = Some(1)}
    IN  <<Cardinality(delivered_pairs), Cardinality(unique_pairs)>>

\* sorted(per_run.items()): <<run, rate>> by run.
compute_success_per_run(rs) ==
    LET runs == SortedSet(Range(run_order(rs)))
    IN  [i \in DOMAIN runs |-> <<runs[i], success_rate_of_run(rs, runs[i])>>]

\* round(q, 6) of a fraction, in millionths (no explored value is half-way).
RoundRat6(q) == (2 * 1000000 * q[1] + q[2]) \div (2 * q[2])

\* A faulty variant: the bucket keyed on the scenario alone.
bucket_key_scenario(scenario, npairs) == <<scenario, None>>
\* The key of bucket.
bucket_key(scenario, npairs) == <<scenario, npairs>>

\* The body of main's loop for one file: <<per_run_rows, bucket>> after it.
process_file(f, rows_so_far, bucket_so_far) ==
    LET meta == parse_meta(f.name)
        per_run == compute_success_per_run(f.rows)
        key == bucket_key(meta[1], meta[2])
    IN  <<rows_so_far \o
            [i \in DOMAIN per_run |->
                [file |-> f.name, scenario |-> meta[1], pairs |-> meta[2],
                 run_index |-> per_run[i][1], success_rate |-> RoundRat6(per_run[i][2])]],
          IF per_run = << >> THEN bucket_so_far
          ELSE Put(bucket_so_far, key,
                   Get(bucket_so_far, key, << >>) \o [i \in DOMAIN per_run |-> per_run[i][2]])>>

\* The order of str(): "flooding" < "routing" < "unknown".
ScenarioRank(s) == IF s = "flooding" THEN 0 ELSE IF s = "routing" THEN 1 ELSE 2
\* key=lambda x: (str(x[0][0]), x[0][1] or -1)
KeyLess(a, b) ==
    LET pa == IF IsNone(a[2]) THEN 0 - 1 ELSE Val(a[2])
        pb == IF IsNone(b[2]) THEN 0 - 1 ELSE Val(b[2])
    IN  ScenarioRank(a[1]) < ScenarioRank(b[1])
            \/ (ScenarioRank(a[1]) = ScenarioRank(b[1]) /\ pa < pb)
RECURSIVE SortedKeys(_)
SortedKeys(S) ==
    IF S = {} THEN << >>
    ELSE LET m == CHOOSE a \in S : \A b \in S \ {a} : KeyLess(a, b)
         IN  <<m>> \o SortedKeys(S \ {m})

\* Build summary averages.
summary_rows_of(bucket_now) ==
    LET keys == SortedKeys(DOMAIN bucket_now)
    IN  [i \in DOMAIN keys |->
            LET rates == bucket_now[keys[i]]
            IN  [scenario |-> keys[i][1], pairs |-> keys[i][2], runs |-> Len(rates),
                 avg_success_rate |->
                    RoundRat6(RatMul(RatSum(rates), <<1, Len(rates)>>))]]

\* --------------------------------------------------------------- state
\* ------------------------------------- run_simulations / write_rows
\* indexes = list(range(args.start, args.start + args.runs)), with --start 1.
Runs == 1..MaxRuns
\* The writer of a paths.csv that an earlier batch left in workdir: an index
\* before every run of this batch.
EarlierBatch == MinOf(Runs) - 1

\* if os.path.exists(src): shutil.copy2(src, dst): the run folder's file
\* after the collection, from workdir's file and the folder's file before it.
collect(src, dst) == IF ~IsNone(src) THEN src ELSE dst

\* mode = 'a' if append and file_exists else 'w'
write_mode(append, file_exists) == IF append /\ file_exists THEN "a" ELSE "w"

NoHandle == [file_exists |-> FALSE, mode |-> ""]

\* The lines of a report file: the header, and the row of a run computed
\* from the paths.csv that the run written_by wrote.
HeaderLine == [kind |-> "header", run_index |-> EarlierBatch, paths_of |-> EarlierBatch]
RowLine(run_index, written_by) ==
    [kind |-> "row", run_index |-> run_index, paths_of |-> written_by]

\* report_rows = compute_report(rows, positions, run_index=args.run_index):
\* the rows of the run, one pair in every explored log.
report_lines(run_index, written_by) == <<RowLine(run_index, written_by)>>

\* The file after open(path, mode): 'w' creates it or empties it, 'a' leaves
\* what it holds.
opened(file, mode) == IF mode = "w" \/ IsNone(file) THEN << >> ELSE Val(file)

\* if mode == 'w' or not file_exists: writer.writeheader(); then the rows.
lines_to_write(handle, report) ==
    IF handle.mode = "w" \/ ~handle.file_exists THEN <<HeaderLine>> \o report ELSE report

\* The file after the lines are written through a handle of the mode: at the
\* end of the file in mode 'a', from the start of the file (the position of
\* a handle opened with 'w') over what another process has put there since.
written(file, mode, lines) ==
    IF mode = "a" THEN file \o lines
    ELSE lines \o SubSeq(file, Len(lines) + 1, Len(file))

VARIABLES
    rows,             \* the event log read so far, in arrival order
    pc,               \* "read", then the script that ran on the log
    report_rows,      \* paths_report: compute_report's result
    packet_paths,     \* endnode_distance_tracker / dsdv_rescue_analysis: the journeys
    detailed_report,  \* endnode_distance_tracker: generate_detailed_report's outcome
    scalars,          \* the scalar records loaded so far, in file order
    keep_duplicates,  \* the --keep-duplicates argument
    fpc,              \* "load", then the failure script that ran on the scalars
    failures,         \* the failures kept
    dropped,          \* the duplicates dropped
    output,           \* what the failure script wrote after the deduplication
    records,          \* the DictReader records of paths.csv read so far
    rpc,              \* "read", then the reader that ran on the records
    scenario,         \* analyze_100_packet_scenario: analyze_paths_csv's outcome
    parsed,           \* paths_report: read_paths_csv's outcome
    files,            \* analyze_success_rates: the pair reports processed so far
    per_run_rows,     \* analyze_success_rates: the per-run rows so far
    bucket,           \* analyze_success_rates: key -> the success rates so far
    summary_rows,     \* analyze_success_rates: the summary rows written
    spc,              \* "scan", then "summarized"
    max_workers,      \* run_simulations: the --max-workers argument
    run_state,        \* run_simulations: how far run_one of each run index has come
    workdir_paths,    \* workdir/delivered_packets/paths.csv: the run that wrote it
    run_paths,        \* output_dir/run_i/paths.csv of each run: the run that wrote it
    aggregate,        \* the aggregate report: its lines, None while it does not exist
    fh                \* paths_report.write_rows of each run: file_exists and mode

journey_vars == <<rows, pc, report_rows, packet_paths, detailed_report>>
failure_vars == <<scalars, keep_duplicates, fpc, failures, dropped, output>>
record_vars == <<records, rpc, scenario, parsed>>
success_vars == <<files, per_run_rows, bucket, summary_rows, spc>>
batch_vars == <<max_workers, run_state, workdir_paths, run_paths, aggregate, fh>>
vars == <<rows, pc, report_rows, packet_paths, detailed_report,
          scalars, keep_duplicates, fpc, failures, dropped, output,
          records, rpc, scenario, parsed,
          files, per_run_rows, bucket, summary_rows, spc,
          max_workers, run_state, workdir_paths, run_paths, aggregate, fh>>

NoOutput == [raised |-> FALSE, reps |-> << >>, tail |-> << >>]
NoRows == [raised |-> FALSE, rows |-> << >>]
NoScenario == [ScenarioRaised EXCEPT !.raised = FALSE]
NoReport == [raised |-> FALSE, routing_method |-> "", packets |-> << >>, summary |-> None]

JourneyInit ==
    /\ rows = << >>
    /\ pc = "read"
    /\ report_rows = << >>
    /\ packet_paths = << >>
    /\ detailed_report = NoReport

FailureInit ==
    /\ scalars = << >>
    /\ fpc = "load"
    /\ failures = << >>
    /\ dropped = 0
    /\ output = NoOutput

RecordInit ==
    /\ records = << >>
    /\ rpc = "read"
    /\ scenario = NoScenario
    /\ parsed = NoRows

SuccessInit ==
    /\ files = << >>
    /\ per_run_rows = << >>
    /\ bucket = << >>
    /\ summary_rows = << >>
    /\ spc = "scan"

BatchInit ==
    /\ run_state = [i \in Runs |-> "queued"]
    /\ run_paths = [i \in Runs |-> None]
    /\ aggregate = None
    /\ fh = [i \in Runs |-> NoHandle]

\* read_paths_csv / pd.read_csv: one more row of the file.
ReadRow ==
    /\ pc = "read"
    /\ Len(rows) < MaxRows
    /\ \E r \in LogRows : rows' = Append(rows, r)
    /\ UNCHANGED <<pc, report_rows, packet_paths, detailed_report>>
    /\ UNCHANGED <<failure_vars, record_vars, success_vars, batch_vars>>

\* paths_report.main: the report of the log read; int('') of an empty
\* ttlAfterDecr field is a ValueError that ends the run while it reads.
ComputeReport ==
    /\ pc = "read"
    /\ IF \E i \in DOMAIN rows : rows[i].ttlAfterDecr = NaN
       THEN report_rows' = << >> /\ pc' = "raised"
       ELSE report_rows' = compute_report(rows) /\ pc' = "reported"
    /\ UNCHANGED <<rows, packet_paths, detailed_report>>
    /\ UNCHANGED <<failure_vars, record_vars, success_vars, batch_vars>>

\* endnode_distance_tracker.main: the journeys of the log read.
AnalyzePacketPaths ==
    /\ pc = "read"
    /\ packet_paths' = analyze_packet_paths(rows)
    /\ pc' = "analyzed"
    /\ UNCHANGED <<rows, report_rows, detailed_report>>
    /\ UNCHANGED <<failure_vars, record_vars, success_vars, batch_vars>>

\* endnode_distance_tracker.main: the report of the journeys.
GenerateDetailedReport ==
    /\ pc = "analyzed"
    /\ detailed_report' = generate_detailed_report(rows, packet_paths)
    /\ pc' = "detailed"
    /\ UNCHANGED <<rows, report_rows, packet_paths>>
    /\ UNCHANGED <<failure_vars, record_vars, success_vars, batch_vars>>

\* dsdv_rescue_analysis.main: the journeys of the log read.
AnalyzeDsdvPacketPaths ==
    /\ pc = "read"
    /\ packet_paths' = analyze_dsdv_packet_paths(rows)
    /\ pc' = "dsdv"
    /\ UNCHANGED <<rows, report_rows, detailed_report>>
    /\ UNCHANGED <<failure_vars, record_vars, success_vars, batch_vars>>

\* load_scalars / read_failures_from_sca: one more scalar line of the files.
LoadScalar ==
    /\ fpc = "load"
    /\ Len(scalars) < MaxScalars
    /\ \E s \in InputScalars : scalars' = Append(scalars, s)
    /\ UNCHANGED <<keep_duplicates, fpc, failures, dropped, output>>
    /\ UNCHANGED <<journey_vars, record_vars, success_vars, batch_vars>>

\* failure_analysis.main: extract_failures on the scalars loaded.
ExtractFailures ==
    /\ fpc = "load"
    /\ failures' = extract_failures(scalars, keep_duplicates)[1]
    /\ dropped' = extract_failures(scalars, keep_duplicates)[2]
    /\ fpc' = "extracted"
    /\ UNCHANGED <<scalars, keep_duplicates, output>>
    /\ UNCHANGED <<journey_vars, record_vars, success_vars, batch_vars>>

\* random_failure_analysis.main: the deduplication, when some failure was read.
DedupFailures ==
    /\ fpc = "load"
    /\ read_failures_from_sca(scalars) # << >>
    /\ failures' = dedup_failures(read_failures_from_sca(scalars), keep_duplicates)[1]
    /\ dropped' = dedup_failures(read_failures_from_sca(scalars), keep_duplicates)[2]
    /\ fpc' = "deduped"
    /\ UNCHANGED <<scalars, keep_duplicates, output>>
    /\ UNCHANGED <<journey_vars, record_vars, success_vars, batch_vars>>

\* failure_analysis.main: failures_summary.txt, after extract_failures.
WriteFailuresSummary ==
    /\ fpc = "extracted"
    /\ output' = failures_summary(failures, dropped, keep_duplicates)
    /\ fpc' = "summarized"
    /\ UNCHANGED <<scalars, keep_duplicates, failures, dropped>>
    /\ UNCHANGED <<journey_vars, record_vars, success_vars, batch_vars>>

\* random_failure_analysis.main: the statistics, after the deduplication.
WriteStats ==
    /\ fpc = "deduped"
    /\ output' = random_failure_stats(failures, dropped, keep_duplicates)
    /\ fpc' = "stats"
    /\ UNCHANGED <<scalars, keep_duplicates, failures, dropped>>
    /\ UNCHANGED <<journey_vars, record_vars, success_vars, batch_vars>>

\* csv.DictReader: one more record of paths.csv.
ReadRecord ==
    /\ rpc = "read"
    /\ Len(records) < MaxRows
    /\ \E rec \in InputRecords : records' = Append(records, rec)
    /\ UNCHANGED <<rpc, scenario, parsed>>
    /\ UNCHANGED <<journey_vars, failure_vars, success_vars, batch_vars>>

\* analyze_100_packet_scenario: analyze_paths_csv on the records of the file.
AnalyzePathsCsv ==
    /\ rpc = "read"
    /\ scenario' = analyze_paths_csv(records, AnalysedFlow[1], AnalysedFlow[2],
                                     ExpectedPackets)
    /\ rpc' = "scenario"
    /\ UNCHANGED <<records, parsed>>
    /\ UNCHANGED <<journey_vars, failure_vars, success_vars, batch_vars>>

\* paths_report.main: read_paths_csv on the records of the file.
ReadPathsCsv ==
    /\ rpc = "read"
    /\ parsed' = read_paths_csv(records)
    /\ rpc' = "parsed"
    /\ UNCHANGED <<records, scenario>>
    /\ UNCHANGED <<journey_vars, failure_vars, success_vars, batch_vars>>

\* analyze_success_rates.main: the next file of the glob.
ProcessFile ==
    /\ spc = "scan"
    /\ Len(files) < MaxFiles
    /\ \E f \in InputFiles :
        /\ \A i \in DOMAIN files : files[i].name # f.name
        /\ files' = Append(files, f)
        /\ per_run_rows' = process_file(f, per_run_rows, bucket)[1]
        /\ bucket' = process_file(f, per_run_rows, bucket)[2]
    /\ UNCHANGED <<summary_rows, spc>>
    /\ UNCHANGED <<journey_vars, failure_vars, record_vars, batch_vars>>

\* analyze_success_rates.main: the summary, when some file matched.
Summarize ==
    /\ spc = "scan"
    /\ files # << >>
    /\ summary_rows' = summary_rows_of(bucket)
    /\ spc' = "summarized"
    /\ UNCHANGED <<files, per_run_rows, bucket>>
    /\ UNCHANGED <<journey_vars, failure_vars, record_vars, batch_vars>>

\* run_simulations.main: the next run index is handed to run_one, by the
\* loop when the run before it has returned (max_workers <= 1), by the
\* executor when a worker is free.
StartRun(i) ==
    /\ run_state[i] = "queued"
    /\ \A j \in Runs : j < i => run_state[j] # "queued"
    /\ Cardinality({j \in Runs : run_state[j] \notin {"queued", "done"}}) < max_workers
    /\ run_state' = [run_state EXCEPT ![i] = "running"]
    /\ UNCHANGED <<max_workers, workdir_paths, run_paths, aggregate, fh>>
    /\ UNCHANGED <<journey_vars, failure_vars, record_vars, success_vars>>

\* run_one: subprocess.run of the simulation in workdir returns; the
\* simulation has written delivered_packets/paths.csv there, or has ended
\* without writing it.
Simulate(i) ==
    /\ run_state[i] = "running"
    /\ \E wrote \in BOOLEAN :
          workdir_paths' = IF wrote THEN Some(i) ELSE workdir_paths
    /\ run_state' = [run_state EXCEPT ![i] = "simulated"]
    /\ UNCHANGED <<max_workers, run_paths, aggregate, fh>>
    /\ UNCHANGED <<journey_vars, failure_vars, record_vars, success_vars>>

\* run_one: collect files, shutil.copy2 of workdir's paths.csv into the run
\* folder if it exists.
CollectFiles(i) ==
    /\ run_state[i] = "simulated"
    /\ run_paths' = [run_paths EXCEPT ![i] = collect(workdir_paths, @)]
    /\ run_state' = [run_state EXCEPT ![i] = "collected"]
    /\ UNCHANGED <<max_workers, workdir_paths, aggregate, fh>>
    /\ UNCHANGED <<journey_vars, failure_vars, record_vars, success_vars>>

\* run_one: no analysis without a paths.csv in the run folder.
SkipAnalysis(i) ==
    /\ run_state[i] = "collected"
    /\ IsNone(run_paths[i])
    /\ run_state' = [run_state EXCEPT ![i] = "done"]
    /\ UNCHANGED <<max_workers, workdir_paths, run_paths, aggregate, fh>>
    /\ UNCHANGED <<journey_vars, failure_vars, record_vars, success_vars>>

\* The analysis process of the run, paths_report.main up to write_rows'
\* os.path.exists(path) and its choice of the mode.
CheckExists(i) ==
    /\ run_state[i] = "collected"
    /\ ~IsNone(run_paths[i])
    /\ fh' = [fh EXCEPT ![i] = [file_exists |-> ~IsNone(aggregate),
                                mode |-> write_mode(TRUE, ~IsNone(aggregate))]]
    /\ run_state' = [run_state EXCEPT ![i] = "checked"]
    /\ UNCHANGED <<max_workers, workdir_paths, run_paths, aggregate>>
    /\ UNCHANGED <<journey_vars, failure_vars, record_vars, success_vars>>

\* write_rows: open(path, mode).
OpenFile(i) ==
    /\ run_state[i] = "checked"
    /\ aggregate' = Some(opened(aggregate, fh[i].mode))
    /\ run_state' = [run_state EXCEPT ![i] = "opened"]
    /\ UNCHANGED <<max_workers, workdir_paths, run_paths, fh>>
    /\ UNCHANGED <<journey_vars, failure_vars, record_vars, success_vars>>

\* write_rows: the header if it is due and the rows of the run, written to
\* the file when the with block closes it; the analysis process ends (its
\* per-run report goes to a file of the run folder) and run_one returns.
WriteRows(i) ==
    /\ run_state[i] = "opened"
    /\ aggregate' = Some(written(Val(aggregate), fh[i].mode,
                                 lines_to_write(fh[i], report_lines(i, Val(run_paths[i])))))
    /\ run_state' = [run_state EXCEPT ![i] = "done"]
    /\ UNCHANGED <<max_workers, workdir_paths, run_paths, fh>>
    /\ UNCHANGED <<journey_vars, failure_vars, record_vars, success_vars>>

\* The journey scripts on an event log.
Init ==
    /\ JourneyInit /\ FailureInit /\ RecordInit /\ SuccessInit /\ keep_duplicates = FALSE
    /\ BatchInit /\ max_workers = 1 /\ workdir_paths = None

Next ==
    \/ ReadRow
    \/ ComputeReport
    \/ AnalyzePacketPaths
    \/ GenerateDetailedReport
    \/ AnalyzeDsdvPacketPaths

Spec == Init /\ [][Next]_vars

\* The failure scripts on the scalars of a results directory.
InitFailures ==
    /\ JourneyInit /\ FailureInit /\ RecordInit /\ SuccessInit /\ keep_duplicates \in BOOLEAN
    /\ BatchInit /\ max_workers = 1 /\ workdir_paths = None

NextFailures ==
    \/ LoadScalar
    \/ ExtractFailures
    \/ WriteFailuresSummary
    \/ DedupFailures
    \/ WriteStats

SpecFailures == InitFailures /\ [][NextFailures]_vars

\* The readers of paths.csv on the records of a file.
NextRecords == ReadRecord \/ AnalyzePathsCsv \/ ReadPathsCsv

SpecRecords == Init /\ [][NextRecords]_vars

\* The aggregation of the pair reports of a folder.
NextSuccess == ProcessFile \/ Summarize

SpecSuccess == Init /\ [][NextSuccess]_vars

\* A batch of runs, one after the other or on several workers; workdir may
\* hold the paths.csv of an earlier batch.
InitBatch ==
    /\ JourneyInit /\ FailureInit /\ RecordInit /\ SuccessInit /\ keep_duplicates = FALSE
    /\ BatchInit
    /\ max_workers \in 1..MaxWorkers
    /\ workdir_paths \in {None, Some(EarlierBatch)}

NextBatch ==
    \E i \in Runs :
        \/ StartRun(i)
        \/ Simulate(i)
        \/ CollectFiles(i)
        \/ SkipAnalysis(i)
        \/ CheckExists(i)
        \/ OpenFile(i)
        \/ WriteRows(i)

SpecBatch == InitBatch /\ [][NextBatch]_vars

\* ---------------------------------------------------------------- claims
\* Reference notions of the claims, read off the log itself.
IsEndNodePair(src, dst) == src >= EndNodeMin /\ dst >= EndNodeMin
LogPairs == {<<rows[i].src, rows[i].dst>> : i \in DOMAIN rows}
LogFlows == {TripletOf(rows[i]) : i \in DOMAIN rows}
TxOfPair(src, dst) ==
    {i \in DOMAIN rows :
        rows[i].event = "TX_SRC" /\ rows[i].src = src /\ rows[i].dst = dst}
EarliestTxOfPair(src, dst) ==
    {i \in TxOfPair(src, dst) :
        \A j \in TxOfPair(src, dst) : rows[i].simTime <= rows[j].simTime}
\* The DELIVERED events of flow k observed at its destination.
DeliveriesAtDst(k) ==
    {i \in DOMAIN rows :
        rows[i].event = "DELIVERED" /\ TripletOf(rows[i]) = k /\ rows[i].currentNode = k[2]}
\* Every DELIVERED event of flow k, wherever observed.
DeliveredEvents(k) ==
    {i \in DOMAIN rows : rows[i].event = "DELIVERED" /\ TripletOf(rows[i]) = k}
EarliestOf(D) == {i \in D : \A j \in D : rows[i].simTime <= rows[j].simTime}
ReportRowsOf(src, dst) ==
    {i \in DOMAIN report_rows : report_rows[i].src = src /\ report_rows[i].dst = dst}

\* The first-arrival metrics of the pair's row rr, the transit time reported
\* as Shown(difference): some earliest TX_SRC of the pair names the first
\* packet, and if that packet has deliveries at dst the row carries the
\* earliest one's time and TTL and counts them all.
FirstArrivalReported(rr, Shown(_)) ==
    \E x \in EarliestTxOfPair(rr.src, rr.dst) :
        LET k == TripletOf(rows[x])
            D == DeliveriesAtDst(k)
        IN  D # {} =>
              \E d \in EarliestOf(D) :
                /\ rr.transit_time_s = Some(Shown(rows[d].simTime - rows[x].simTime))
                /\ rr.first_packet_hop_count =
                        Some(rows[x].ttlAfterDecr - rows[d].ttlAfterDecr)
                /\ rr.copies_received_at_dst_for_first_packet = Cardinality(D)

EveryPairReported(Shown(_)) ==
    pc = "reported" =>
        \A pr \in LogPairs :
            (IsEndNodePair(pr[1], pr[2]) /\ TxOfPair(pr[1], pr[2]) # {}) =>
                /\ Cardinality(ReportRowsOf(pr[1], pr[2])) = 1
                /\ \A i \in ReportRowsOf(pr[1], pr[2]) :
                        FirstArrivalReported(report_rows[i], Shown)

Exact(x) == x

\* C1 as stated: for every end-node pair whose first transmitted packet was
\* delivered at dst, the report row's transit time is exactly (earliest
\* DELIVERED simTime) - (TX_SRC simTime), its hop count the TTL difference of
\* that same delivery and its copies the number of deliveries at dst.
C1_TransitExact == EveryPairReported(Exact)

\* C1 amended: the same, the transit time being that difference rounded to
\* six decimal places (microseconds), as round(transit_time, 6) reports it.
C1_FirstArrival == EveryPairReported(Round6)

\* A reported pair with two copies at dst, the later one with another TTL:
\* TX_SRC t=0 ttl=5, deliveries t=12 ttl=3 and t=26 ttl=6.
C1_Witness ==
    /\ pc = "reported"
    /\ \E i \in DOMAIN report_rows :
        /\ report_rows[i].copies_received_at_dst_for_first_packet = 2
        /\ report_rows[i].first_packet_hop_count = Some(2)
        /\ report_rows[i].transit_time_s = Some(10)
    /\ \E i \in DOMAIN rows :
        /\ rows[i].event = "DELIVERED" /\ rows[i].currentNode = rows[i].dst
        /\ rows[i].simTime = 26 /\ rows[i].ttlAfterDecr = 6

\* C2: in every reconstructor, DELIVERED events observed at a node other than
\* the flow's dst never mark the flow delivered, never count as a delivered
\* copy and never set a delivery or transit time.
C2_RelayDeliveredExcluded ==
    /\ pc = "reported" =>
        \A i \in DOMAIN report_rows :
            LET rr == report_rows[i]
            IN  (\A k \in LogFlows :
                    (k[1] = rr.src /\ k[2] = rr.dst) => DeliveriesAtDst(k) = {}) =>
                    /\ rr.delivered = 0
                    /\ rr.copies_received_at_dst_for_first_packet = 0
                    /\ IsNone(rr.transit_time_s)
                    /\ IsNone(rr.first_delivery_time_s)
    /\ pc \in {"analyzed", "detailed", "dsdv"} =>
        \A seq \in DOMAIN packet_paths :
            LET p == packet_paths[seq]
            IN  (\A k \in LogFlows : k[3] = seq => DeliveriesAtDst(k) = {}) =>
                    /\ ~p.delivered
                    /\ IsNone(p.delivered_time)
                    /\ IsNone(p.transit_time)
                    /\ IsNone(p.first_transit_time)
                    /\ (pc = "dsdv" => p.copies_at_destination = 0)

\* C3: a journey record holds the events of one flow (src, dst, packetSeq)
\* only: the events grouped into a record are exactly the events of one flow
\* of the log, and a report row counts deliveries of its own pair only.
C3_GroupedByFlowKey ==
    /\ pc \in {"analyzed", "detailed", "dsdv"} =>
        \A seq \in DOMAIN packet_paths :
            \E k \in LogFlows :
                /\ k[3] = seq
                /\ Len(packet_paths[seq].path_events) =
                        Cardinality({i \in DOMAIN rows : TripletOf(rows[i]) = k})
    /\ pc = "reported" =>
        \A i \in DOMAIN report_rows :
            report_rows[i].copies_received_at_dst_for_first_packet <=
                Cardinality({j \in DOMAIN rows :
                    /\ rows[j].event = "DELIVERED"
                    /\ rows[j].src = report_rows[i].src
                    /\ rows[j].dst = report_rows[i].dst})

\* C7: every hop count compute_report reports is absent or >= 0.
C7_HopCountNonNegative ==
    pc = "reported" =>
        \A i \in DOMAIN report_rows :
            \/ IsNone(report_rows[i].first_packet_hop_count)
            \/ Val(report_rows[i].first_packet_hop_count) >= 0

\* C8: compute_report returns the same report rows for every arrival order
\* of the same rows.
C8_OrderIndependent ==
    pc = "reported" => \A q \in Perms(rows) : compute_report(q) = report_rows

\* C9: with a flow that has no TX_SRC in the log, reconstruction and the
\* per-packet report complete without raising and the flow's transit time
\* and hop count are absent.
FlowsWithoutTxSrc ==
    {k \in LogFlows : ~\E i \in DOMAIN rows : rows[i].event = "TX_SRC" /\ TripletOf(rows[i]) = k}
SeqsWithoutTxSrc ==
    {k[3] : k \in FlowsWithoutTxSrc} \ {k[3] : k \in LogFlows \ FlowsWithoutTxSrc}

C9_MissingTxSrcReported ==
    /\ pc \in {"analyzed", "detailed"} =>
        \A seq \in SeqsWithoutTxSrc :
            /\ IsNone(packet_paths[seq].transit_time)
            /\ IsNone(packet_paths[seq].first_transit_time)
            /\ IsNone(packet_paths[seq].first_hop_count)
    /\ (pc = "detailed" /\ SeqsWithoutTxSrc # {}) => ~detailed_report.raised
    /\ pc = "reported" =>
        \A i \in DOMAIN report_rows :
            TxOfPair(report_rows[i].src, report_rows[i].dst) # {}

\* C10: a flow with a TX_SRC and no DELIVERED event is an ordinary "not
\* delivered" record: delivered 0/false, no copies, no transit time, delivery
\* time or delivery hop count.
C10_NotDeliveredRecord ==
    /\ pc = "reported" =>
        \A i \in DOMAIN report_rows :
            LET rr == report_rows[i]
            IN  (\A x \in EarliestTxOfPair(rr.src, rr.dst) :
                        DeliveredEvents(TripletOf(rows[x])) = {}) =>
                    /\ rr.delivered = 0
                    /\ rr.copies_received_at_dst_for_first_packet = 0
                    /\ IsNone(rr.transit_time_s)
                    /\ IsNone(rr.first_delivery_time_s)
                    /\ IsNone(rr.first_packet_hop_count)
    /\ pc \in {"analyzed", "detailed"} =>
        \A seq \in DOMAIN packet_paths :
            LET p == packet_paths[seq]
            IN  (/\ Cardinality({k \in LogFlows : k[3] = seq}) = 1
                 /\ ~IsNone(p.source)
                 /\ \A k \in LogFlows : k[3] = seq => DeliveredEvents(k) = {}) =>
                    /\ ~p.delivered
                    /\ p.deliver_times = << >>
                    /\ p.transit_times = << >>
                    /\ IsNone(p.transit_time)
                    /\ IsNone(p.delivered_time)
                    /\ IsNone(p.first_hop_count)
                    /\ p.deliver_hop_counts = << >>

\* The raw failure observations among the scalars loaded, and the canonical
\* key (repetition, node, time rounded to 1e-9 s) of an observation.
Observations == read_failures_from_sca(scalars)
CanonicalKey(f) == <<f.repetition, f.node, ((f.time + 5) \div 10) * 10>>
ObservedKeys == {CanonicalKey(Observations[i]) : i \in DOMAIN Observations}

\* C4: with deduplication enabled the output holds exactly one record for
\* each distinct canonical key of the input, each record an observation of
\* the input, and dropped = observations - records.
C4_OneRecordPerKey ==
    (fpc \in {"extracted", "deduped"} /\ ~keep_duplicates) =>
        /\ \A key \in ObservedKeys :
                Cardinality({i \in DOMAIN failures : CanonicalKey(failures[i]) = key}) = 1
        /\ \A i \in DOMAIN failures : failures[i] \in Range(Observations)
        /\ Len(failures) = Cardinality(ObservedKeys)
        /\ dropped = Len(Observations) - Len(failures)

\* Three observations over two canonical keys: two records, one dropped, the
\* two observations of one key differing in raw time.
C4_Witness ==
    /\ fpc = "extracted" /\ ~keep_duplicates
    /\ Len(Observations) = 3 /\ Len(failures) = 2 /\ dropped = 1
    /\ \E i, j \in DOMAIN Observations :
        /\ CanonicalKey(Observations[i]) = CanonicalKey(Observations[j])
        /\ Observations[i].time # Observations[j].time

\* C5: extract_failures returns the same list, in the same order, and the
\* same dropped count for every arrangement of the same scalars.
C5_OrderIndependent ==
    fpc = "extracted" =>
        \A q \in Perms(scalars) :
            extract_failures(q, keep_duplicates) = <<failures, dropped>>

\* The scalar records that carry the failures fs (module path of the node,
\* name failureTime, the time printed in full).
to_scalars(fs) ==
    [i \in DOMAIN fs |-> Scalar(Some(fs[i].node), "failureTime", fs[i].time, fs[i].repetition)]

\* C6: deduplicating the deduplicated output returns it unchanged, in the
\* same order, with nothing dropped.
C6_Idempotent ==
    /\ (fpc = "extracted" /\ ~keep_duplicates) =>
            extract_failures(to_scalars(failures), FALSE) = <<failures, 0>>
    /\ (fpc = "deduped" /\ ~keep_duplicates) =>
            dedup_failures(failures, FALSE) = <<failures, 0>>

\* An output of two records left after a duplicate was dropped.
C6_Witness ==
    /\ fpc \in {"extracted", "deduped"} /\ ~keep_duplicates
    /\ Len(failures) >= 2
    /\ dropped >= 1

\* The records of the analysed flow that analyze_paths_csv can read, and
\* among them the TX_SRC / TX_FWD_DATA events of next-hop type nht.
IsReadable(rec) == \A c \in DOMAIN rec :
    /\ rec[c].kind # "none"
    /\ (c \notin {"event", "nextHopType"}) => rec[c].kind = "num"
FlowRecords ==
    {i \in DOMAIN records :
        /\ IsReadable(records[i])
        /\ records[i].src.num = AnalysedFlow[1]
        /\ records[i].dst.num = AnalysedFlow[2]}
ForwardEvents(nht) ==
    {i \in FlowRecords :
        /\ records[i].event.text \in {"TX_SRC", "TX_FWD_DATA"}
        /\ records[i].nextHopType.text = nht}

\* C11: analyze_paths_csv classifies the run as DSDV exactly when the UNICAST
\* TX_SRC/TX_FWD_DATA events of the analysed flow are strictly more than
\* twice the BCAST ones, and as FLOODING otherwise, equality and 0/0 included.
C11_RoutingMode ==
    (rpc = "scenario" /\ ~scenario.raised) =>
        LET u == Cardinality(ForwardEvents("UNICAST"))
            b == Cardinality(ForwardEvents("BCAST"))
        IN  /\ scenario.routing_mode \in {"DSDV", "FLOODING"}
            /\ scenario.routing_mode = "DSDV" <=> u > 2 * b

\* The equality case: two UNICAST events and one BCAST event, FLOODING.
C11_Witness ==
    /\ rpc = "scenario" /\ ~scenario.raised
    /\ Cardinality(ForwardEvents("UNICAST")) = 2
    /\ Cardinality(ForwardEvents("BCAST")) = 1
    /\ scenario.routing_mode = "FLOODING"

\* C12: detect_routing_method labels a trace 'routing' only when its unicast
\* event count exceeds twice its broadcast event count (the counts it takes
\* itself, from chosenVia).
C12_RoutingOnlyAboveTwice ==
    (pc = "detailed" /\ ~detailed_report.raised) =>
        LET u == Cardinality({i \in DOMAIN rows : rows[i].chosenVia # BROADCAST_ADDRESS})
            b == Cardinality({i \in DOMAIN rows : rows[i].chosenVia = BROADCAST_ADDRESS})
        IN  detailed_report.routing_method = "routing" => u > 2 * b

\* C16: the delivered total of the run summary counts each generated logical
\* packet at most once: it is at most the number of packets with a delivery,
\* at most the total generated, and the delivery rate is at most 100%.
C16_DeliveredTotalUnique ==
    (pc = "detailed" /\ ~detailed_report.raised) =>
        LET sm == Val(detailed_report.summary)
        IN  /\ sm.packets_delivered <= Cardinality({k \in LogFlows : DeliveredEvents(k) # {}})
            /\ sm.packets_delivered <= sm.packets_generated
            /\ RatLeq(sm.delivery_rate, <<100, 1>>)

\* A malformed record: a field absent, or a text where a number is expected.
IsMalformed(rec) == ~IsReadable(rec)
WellFormedRecords == SelectSeq(records, LAMBDA rec : ~IsMalformed(rec))

\* C18: a malformed record is rejected for that record only: the run does
\* not raise and its result is the result on the remaining records.
C18_MalformedSkipped ==
    /\ rpc = "scenario" =>
        /\ ~scenario.raised
        /\ scenario = analyze_paths_csv(WellFormedRecords, AnalysedFlow[1],
                                        AnalysedFlow[2], ExpectedPackets)
    /\ rpc = "parsed" =>
        /\ ~parsed.raised
        /\ parsed = read_paths_csv(WellFormedRecords)

\* The repetitions with a failure kept, the failure times of a repetition in
\* the order kept and in ascending order, and what was written for it.
KeptRepetitions == {failures[i].repetition : i \in DOMAIN failures}
KeptTimes(rep) ==
    LET fs == SelectSeq(failures, LAMBDA f : f.repetition = rep)
    IN  [i \in DOMAIN fs |-> fs[i].time]
AscendingTimes(rep) == SortedTimes(KeptTimes(rep))
WrittenFor(rep) == {i \in DOMAIN output.reps : output.reps[i].rep = rep}
HasStatistics(e) == ~IsNone(e.mean_iv)

\* C13: a repetition with n >= 2 failure times t[1] <= ... <= t[n] gets n-1
\* intervals, the k-th t[k+1] - t[k] >= 0, a mean interval of
\* (t[n] - t[1])/(n-1), and lambda_hat * mean = 1 whenever the mean is positive.
C13_Intervals ==
    fpc = "stats" =>
        \A rep \in KeptRepetitions :
            LET t == AscendingTimes(rep)
                n == Len(t)
            IN  n >= 2 =>
                  /\ WrittenFor(rep) # {}
                  /\ \A i \in WrittenFor(rep) :
                        LET e == output.reps[i]
                        IN  /\ HasStatistics(e)
                            /\ Len(e.intervals) = n - 1
                            /\ \A k \in 1..(n - 1) :
                                  e.intervals[k] = t[k + 1] - t[k] /\ e.intervals[k] >= 0
                            /\ RatEq(Val(e.mean_iv), <<t[n] - t[1], n - 1>>)
                            /\ Val(e.mean_iv)[1] > 0 =>
                                  RatEq(RatMul(Val(e.lambda_hat), Val(e.mean_iv)), <<1, 1>>)

\* Three failures of one repetition, read out of time order: intervals 2 and
\* 8, mean 5, lambda_hat 1/5.
C13_Witness ==
    /\ fpc = "stats"
    /\ \E i \in DOMAIN output.reps :
        /\ output.reps[i].intervals = <<2, 8>>
        /\ RatEq(Val(output.reps[i].mean_iv), <<5, 1>>)
        /\ RatEq(Val(output.reps[i].lambda_hat), <<1, 5>>)
    /\ \E i, j \in DOMAIN failures : i < j /\ failures[i].time > failures[j].time

\* The product over j <= i of (1 - 1/(n - j + 1)).
RECURSIVE SurvivalProduct(_, _)
SurvivalProduct(n, i) ==
    IF i = 0 THEN <<1, 1>>
    ELSE RatMul(SurvivalProduct(n, i - 1), <<n - i, n - i + 1>>)

\* km is the Kaplan-Meier curve of the times whose ascending order is t.
IsSurvivalCurve(km, t) ==
    /\ Len(km) = Len(t)
    /\ \A i \in DOMAIN km :
        /\ km[i][1] = t[i]
        /\ RatEq(km[i][2], SurvivalProduct(Len(t), i))
        /\ RatLeq(<<0, 1>>, km[i][2]) /\ RatLeq(km[i][2], <<1, 1>>)
    /\ \A i \in 1..(Len(km) - 1) : RatLeq(km[i + 1][2], km[i][2])

\* C14: km_survival returns one (time, survival) point per failure time, in
\* ascending time order, the i-th survival the product over j <= i of
\* (1 - 1/(n - j + 1)); the survivals never increase and lie in [0,1]. This
\* holds of the curve written for a repetition and of km_survival applied to
\* the repetition's times in the order they were read.
C14_KaplanMeier ==
    fpc = "stats" =>
        \A rep \in KeptRepetitions :
            /\ IsSurvivalCurve(km_survival(KeptTimes(rep)), AscendingTimes(rep))
            /\ \A i \in WrittenFor(rep) :
                  HasStatistics(output.reps[i]) =>
                      IsSurvivalCurve(output.reps[i].km_csv, AscendingTimes(rep))

\* A curve of three points written for times read out of order, the last
\* survival 0 and the first 2/3.
C14_Witness ==
    /\ fpc = "stats"
    /\ \E rep \in KeptRepetitions :
        /\ KeptTimes(rep) # AscendingTimes(rep)
        /\ \E i \in WrittenFor(rep) :
            /\ Len(output.reps[i].km_csv) = 3
            /\ RatEq(output.reps[i].km_csv[1][2], <<2, 3>>)
            /\ RatEq(output.reps[i].km_csv[3][2], <<0, 1>>)

C17_DroppedReported ==
    (fpc \in {"summarized", "stats"} /\ dropped > 0) =>
        \E i \in DOMAIN output.tail : output.tail[i].dropped = Some(dropped)

\* sum((x - mu)^2) / (m - 1) for intervals x of sum S: the fraction
\* sum((m x - S)^2) / (m^2 (m - 1)).
BesselVariance(x) ==
    LET m == Len(x)
        S == SumSeq(x)
    IN  <<SumSeq([i \in DOMAIN x |-> (m * x[i] - S) * (m * x[i] - S)]), m * m * (m - 1)>>

\* C20: the interval variance is sum((x - mu)^2)/(m - 1) for m > 1 intervals
\* and 0 for one interval; with exactly two failure times the standard
\* deviation and the coefficient of variation are 0.
C20_BesselVariance ==
    fpc = "stats" =>
        \A i \in DOMAIN output.reps :
            LET e == output.reps[i]
                m == Len(e.intervals)
            IN  HasStatistics(e) =>
                  /\ m > 1 => RatEq(Val(e.var_iv), BesselVariance(e.intervals))
                  /\ m = 1 => /\ RatEq(Val(e.var_iv), <<0, 1>>)
                              /\ Val(e.std_iv).sqrt_of[1] = 0
                              /\ Val(e.cov_iv).sqrt_of[1] = 0
                  /\ Val(e.std_iv) = Sqrt(Val(e.var_iv))

\* Intervals 2 and 8: variance ((2-5)^2 + (8-5)^2)/1 = 18.
C20_Witness ==
    /\ fpc = "stats"
    /\ \E i \in DOMAIN output.reps :
        /\ output.reps[i].intervals = <<2, 8>>
        /\ RatEq(Val(output.reps[i].var_iv), <<18, 1>>)

\* The per-run success rates of the files processed whose parsed
\* (scenario, pairs) is key, file after file.
RatesOfKey(key) ==
    Flatten([i \in DOMAIN files |->
        IF parse_meta(files[i].name) = key
        THEN [j \in DOMAIN compute_success_per_run(files[i].rows) |->
                compute_success_per_run(files[i].rows)[j][2]]
        ELSE << >>])
FileKeys == {parse_meta(files[i].name) : i \in DOMAIN files}
SummaryRowsOf(key) ==
    {i \in DOMAIN summary_rows : <<summary_rows[i].scenario, summary_rows[i].pairs>> = key}

\* C19: every summary row is the row of a key (scenario, pairs) of the input
\* files; a key with a per-run rate has exactly one row, whose runs is the
\* number of per-run rates of the files of that key and whose average is the
\* mean of exactly those rates (written rounded to six decimals); the runs
\* fields sum to the number of per-run rows.
C19_AveragePerKey ==
    spc = "summarized" =>
        /\ \A i \in DOMAIN summary_rows :
              <<summary_rows[i].scenario, summary_rows[i].pairs>> \in FileKeys
        /\ \A key \in FileKeys :
              LET rates == RatesOfKey(key)
              IN  IF rates = << >> THEN SummaryRowsOf(key) = {}
                  ELSE /\ Cardinality(SummaryRowsOf(key)) = 1
                       /\ \A i \in SummaryRowsOf(key) :
                            /\ summary_rows[i].runs = Len(rates)
                            /\ summary_rows[i].avg_success_rate =
                                  RoundRat6(<<RatSum(rates)[1], RatSum(rates)[2] * Len(rates)>>)
        /\ SumSeq([i \in DOMAIN summary_rows |-> summary_rows[i].runs]) = Len(per_run_rows)

\* Two files of the key (routing, 2) with three runs between them, of rates
\* 0, 1 and 1/2 (average 0.5), beside a file of another key.
C19_Witness ==
    /\ spc = "summarized"
    /\ Len(summary_rows) = 2
    /\ \E i \in DOMAIN summary_rows :
        /\ summary_rows[i].scenario = "routing" /\ summary_rows[i].pairs = Some(2)
        /\ summary_rows[i].runs = 3
        /\ summary_rows[i].avg_success_rate = 500000
    /\ \E i \in DOMAIN summary_rows : summary_rows[i].runs = 1

\* C21: when every interval of a repetition is 0 (all its failure times
\* coincide, mean interval 0) the statistics step does not raise, reports a
\* coefficient of variation of 0 and a lambda_hat of 0, and the CDF table and
\* the survival curve of the repetition are written all the same.
C21_ZeroMeanGuarded ==
    fpc = "stats" =>
        \A rep \in KeptRepetitions :
            LET t == AscendingTimes(rep)
            IN  (Len(t) >= 2 /\ t[1] = t[Len(t)]) =>
                  /\ ~output.raised
                  /\ WrittenFor(rep) # {}
                  /\ \A i \in WrittenFor(rep) :
                        LET e == output.reps[i]
                        IN  /\ HasStatistics(e) /\ ~e.raised
                            /\ RatEq(Val(e.mean_iv), <<0, 1>>)
                            /\ Val(e.cov_iv) = Sqrt(<<0, 1>>)
                            /\ Val(e.lambda_hat)[2] > 0
                            /\ RatEq(Val(e.lambda_hat), <<0, 1>>)
                            /\ Len(e.cdf_csv) = grid + 1
                            /\ Len(e.km_csv) = Len(t)

\* Two nodes failing at the same time in one repetition: one interval of 0,
\* lambda_hat 0, and both tables written.
C21_Witness ==
    /\ fpc = "stats"
    /\ \E i \in DOMAIN output.reps :
        /\ output.reps[i].intervals = <<0>>
        /\ RatEq(Val(output.reps[i].lambda_hat), <<0, 1>>)
        /\ Len(output.reps[i].cdf_csv) = grid + 1
        /\ Len(output.reps[i].km_csv) = 2

\* C22: for a repetition with n >= 2 failure times the CDF table has 101
\* rows whose times start at the first failure time and never decrease; the
\* empirical CDF never decreases along the grid, is at least 1/n in the first
\* row and is 1 in the last row; the shifted exponential CDF is 0 in the
\* first row and never decreases.
C22_CdfTable ==
    fpc = "stats" =>
        \A rep \in KeptRepetitions :
            LET t == AscendingTimes(rep)
                n == Len(t)
            IN  n >= 2 =>
                  \A i \in WrittenFor(rep) :
                      LET c == output.reps[i].cdf_csv
                      IN  /\ Len(c) = 101
                          /\ RatEq(c[1].time, <<t[1], 1>>)
                          /\ \A k \in 1..100 :
                                /\ RatLeq(c[k].time, c[k + 1].time)
                                /\ RatLeq(c[k].empirical_cdf, c[k + 1].empirical_cdf)
                                /\ RatLeq(c[k].exponential_cdf.one_minus_exp_neg,
                                          c[k + 1].exponential_cdf.one_minus_exp_neg)
                          /\ RatLeq(<<1, n>>, c[1].empirical_cdf)
                          /\ RatEq(c[101].empirical_cdf, <<1, 1>>)
                          /\ RatEq(c[1].exponential_cdf.one_minus_exp_neg, <<0, 1>>)

\* C29: for the n failure times of a repetition km_survival returns n points,
\* the i-th with survival (n - i)/n, so the last survival is exactly 0; equal
\* failure times keep one point each. This holds of km_survival applied to
\* the times in the order they were read and of the curve written.
C29_SurvivalIsFractionLeft ==
    fpc = "stats" =>
        \A rep \in KeptRepetitions :
            LET n == Len(KeptTimes(rep))
                km == km_survival(KeptTimes(rep))
            IN  /\ Len(km) = n
                /\ \A i \in 1..n : RatEq(km[i][2], <<n - i, n>>)
                /\ km[n][2][1] = 0
                /\ \A t \in Range(KeptTimes(rep)) :
                      Cardinality({i \in DOMAIN km : km[i][1] = t})
                          = Cardinality({i \in 1..n : KeptTimes(rep)[i] = t})
                /\ \A i \in WrittenFor(rep) :
                      HasStatistics(output.reps[i]) => output.reps[i].km_csv = km

\* Three failures of one repetition, two of them at the same time: the curve
\* written has two points at that time, with survivals 2/3 and 1/3, and ends at 0.
C29_Witness ==
    /\ fpc = "stats"
    /\ \E i \in DOMAIN output.reps :
        LET km == output.reps[i].km_csv
        IN  /\ Len(km) = 3
            /\ km[1][1] = km[2][1] /\ km[2][1] < km[3][1]
            /\ RatEq(km[1][2], <<2, 3>>) /\ RatEq(km[2][2], <<1, 3>>)
            /\ km[3][2][1] = 0

\* The readable rows of a run of a pair report, its distinct pairs and those
\* of them with a row flagged delivered = 1.
ReadableRows(rs, run) ==
    {i \in DOMAIN rs : rs[i].run_index = Some(run) /\ ~IsNone(rs[i].src) /\ ~IsNone(rs[i].dst)}
ReadableRuns(rs) ==
    {Val(rs[i].run_index) : i \in {j \in DOMAIN rs : ~IsNone(rs[j].run_index)
                                        /\ ~IsNone(rs[j].src) /\ ~IsNone(rs[j].dst)}}
PairsOfRun(rs, run) == {<<rs[i].src, rs[i].dst>> : i \in ReadableRows(rs, run)}
DeliveredPairsOfRun(rs, run) ==
    {<<rs[i].src, rs[i].dst>> : i \in {j \in ReadableRows(rs, run) : rs[j].delivered = Some(1)}}
\* rs with its i-th row written twice.
WithRowTwice(rs, i) == SubSeq(rs, 1, i) \o SubSeq(rs, i, Len(rs))

\* C30: for every file processed, compute_success_per_run has an entry for
\* exactly the runs with a row whose run_index, src and dst are readable; the
\* entry is (distinct pairs with a row flagged delivered = 1) / (distinct
\* pairs of the run), lies in [0,1], and is the same when any row of the file
\* is written twice.
C30_SuccessPerRun ==
    \A k \in DOMAIN files :
        LET rs == files[k].rows
            per_run == compute_success_per_run(rs)
        IN  /\ {per_run[j][1] : j \in DOMAIN per_run} = ReadableRuns(rs)
            /\ Len(per_run) = Cardinality(ReadableRuns(rs))
            /\ \A j \in DOMAIN per_run :
                  LET rate == per_run[j][2]
                  IN  /\ rate[2] = Cardinality(PairsOfRun(rs, per_run[j][1]))
                      /\ rate[1] = Cardinality(DeliveredPairsOfRun(rs, per_run[j][1]))
                      /\ rate[2] > 0 /\ 0 <= rate[1] /\ rate[1] <= rate[2]
            /\ \A i \in DOMAIN rs : compute_success_per_run(WithRowTwice(rs, i)) = per_run

\* A file with four rows of run 0, one of them with an unreadable src and
\* flagged delivered: three distinct pairs, one delivered.
C30_Witness ==
    \E k \in DOMAIN files :
        /\ \E i \in DOMAIN files[k].rows :
              IsNone(files[k].rows[i].src) /\ files[k].rows[i].delivered = Some(1)
        /\ compute_success_per_run(files[k].rows) = <<<<0, <<1, 3>>>>>>
        /\ \E i \in DOMAIN per_run_rows :
              per_run_rows[i].file = files[k].name /\ per_run_rows[i].success_rate = 333333

\* The DELIVERED rows of the packets numbered seq, and those of them whose
\* TTL is known and not above the initial TTL of the journey p.
DeliveredRowsOfSeq(seq) ==
    {i \in DOMAIN rows : rows[i].event = "DELIVERED" /\ rows[i].packetSeq = seq}
TtlValidDeliveries(seq, p) ==
    {i \in DeliveredRowsOfSeq(seq) :
        /\ ~IsNone(p.initial_ttl)
        /\ rows[i].ttlAfterDecr # NaN
        /\ Val(p.initial_ttl) - rows[i].ttlAfterDecr >= 0}

\* C25: for a packet with a TTL-valid delivery, the final hop_count of both
\* reconstructions is initial TTL - TTL at delivery of one of its deliveries;
\* a forwarding event scanned after a delivery does not change it.
C25_TtlHopCountFinal ==
    pc \in {"analyzed", "detailed", "dsdv"} =>
        \A seq \in DOMAIN packet_paths :
            LET p == packet_paths[seq]
            IN  p.deliver_hop_counts # << >> =>
                  \E i \in TtlValidDeliveries(seq, p) :
                      p.hop_count = Val(p.initial_ttl) - rows[i].ttlAfterDecr

\* C26: in analyze_packet_paths, for a packet with a destination transit
\* time, first_transit_time is the minimum of transit_times, and
\* first_hop_count, when present, is the TTL difference of a destination
\* delivery with that transit time.
C26_FirstIsEarliest ==
    pc \in {"analyzed", "detailed"} =>
        \A seq \in DOMAIN packet_paths :
            LET p == packet_paths[seq]
            IN  p.transit_times # << >> =>
                  /\ p.first_transit_time = Some(MinOf(Range(p.transit_times)))
                  /\ ~IsNone(p.first_hop_count) =>
                        \E i \in TtlValidDeliveries(seq, p) :
                            /\ rows[i].currentNode = Val(p.destination)
                            /\ rows[i].simTime - Val(p.generated_time)
                                    = MinOf(Range(p.transit_times))
                            /\ Val(p.first_hop_count)
                                    = Val(p.initial_ttl) - rows[i].ttlAfterDecr

\* C27: in every report row the copies are the DELIVERED events at dst of the
\* pair's first transmitted packet, delivered is 1 exactly when there is such
\* an event, and delivered = 1 comes with a transit time and a first
\* delivery time.
C27_CopiesOfFirstPacket ==
    pc = "reported" =>
        \A i \in DOMAIN report_rows :
            LET rr == report_rows[i]
            IN  /\ \E x \in EarliestTxOfPair(rr.src, rr.dst) :
                      LET D == DeliveriesAtDst(TripletOf(rows[x]))
                      IN  /\ rr.copies_received_at_dst_for_first_packet = Cardinality(D)
                          /\ rr.delivered = 1 <=> D # {}
                /\ rr.delivered = 1 =>
                      ~IsNone(rr.transit_time_s) /\ ~IsNone(rr.first_delivery_time_s)

\* C28: in both reconstructions every entry of deliver_hop_counts is >= 0
\* and is initial_ttl - ttlAfterDecr of a DELIVERED row of the packet; there
\* are no more entries than DELIVERED rows with a known TTL and a
\* non-negative difference, so none comes from a delivery with an unknown TTL
\* or a negative difference.
C28_DeliverHopCounts ==
    pc \in {"analyzed", "detailed", "dsdv"} =>
        \A seq \in DOMAIN packet_paths :
            LET p == packet_paths[seq]
                hc == p.deliver_hop_counts
            IN  /\ \A j \in DOMAIN hc :
                      /\ hc[j] >= 0
                      /\ \E i \in TtlValidDeliveries(seq, p) :
                            hc[j] = Val(p.initial_ttl) - rows[i].ttlAfterDecr
                /\ Len(hc) <= Cardinality(TtlValidDeliveries(seq, p))
                /\ Len(hc) <= Cardinality(DeliveredRowsOfSeq(seq))

\* A packet sent with TTL 5 and delivered twice, once without a TTL and once
\* with TTL 3: one entry, 2.
C28_Witness ==
    /\ pc \in {"analyzed", "dsdv"}
    /\ \E seq \in DOMAIN packet_paths :
        /\ packet_paths[seq].initial_ttl = Some(5)
        /\ packet_paths[seq].deliver_hop_counts = <<2>>
        /\ Cardinality(DeliveredRowsOfSeq(seq)) = 2
        /\ \E i \in DeliveredRowsOfSeq(seq) : rows[i].ttlAfterDecr = NaN

\* C23: the paths.csv stored in the folder of run i, which is the one
\* analysed for it, was written by the simulation of run i, with one worker
\* and with several.
C23_OwnPathsCollected ==
    \A i \in Runs : ~IsNone(run_paths[i]) => run_paths[i] = Some(i)

\* C24: when every run has returned and some run was analysed, the aggregate
\* report starts with the header, holds no other header, and holds the row
\* of every analysed run exactly once.
C24_OneHeaderEveryRowOnce ==
    ((\A i \in Runs : run_state[i] = "done") /\ (\E i \in Runs : ~IsNone(run_paths[i]))) =>
        /\ ~IsNone(aggregate)
        /\ Val(aggregate) # << >>
        /\ Head(Val(aggregate)).kind = "header"
        /\ Cardinality({k \in DOMAIN Val(aggregate) : Val(aggregate)[k].kind = "header"}) = 1
        /\ \A i \in Runs :
              ~IsNone(run_paths[i]) =>
                  Cardinality({k \in DOMAIN Val(aggregate) :
                      /\ Val(aggregate)[k].kind = "row"
                      /\ Val(aggregate)[k].run_index = i}) = 1
====
